---- MODULE Spec2Model ----
(***************************************************************************)
(* Model of tmux_mcp: the safety evaluator (safety.py), the command bridge *)
(* with its pending table and pane-snapshot cache (command_bridge.py), and *)
(* the part of the session manager the bridge relies on                    *)
(* (session_manager.py).  Every handler is one atomic action: the outer    *)
(* loop (agent.py serve_forever) handles one call at a time.               *)
(***************************************************************************)
EXTENDS Integers, Sequences, FiniteSets, TLC

\* ----------------------------------------------------------------- bounds
\* command ids 1..MaxId stand for "cmd-1" .. "cmd-<MaxId>"
MaxId == 2
\* longest raw text a capture-pane returns (characters)
MaxTextLen == 2
\* StructuredLogWriter.max_bytes, scaled: the byte threshold of a rotation
MaxBytes == 4
\* the appends of one behaviour that follows the log files
MaxAppends == 5
\* the appends of one such behaviour that meet a file-system failure
MaxFaults == 1
\* StructuredLogWriter.backups as build_server constructs the writer
Backups == 3

None == "None"

\* ------------------------------------------------------------------- text
\* A text is a sequence of characters; NL is "\n".
NL == "\n"
Chars == {"a", NL}
RawTexts == UNION {[1..n -> Chars] : n \in 0..MaxTextLen}

\* str.rstrip("\n")
RECURSIVE RStripNL(_)
RStripNL(s) ==
  IF s # <<>> /\ s[Len(s)] = NL THEN RStripNL(SubSeq(s, 1, Len(s) - 1)) ELSE s

\* index of the first NL of s, 0 if none
FirstNL(s) ==
  IF \E i \in 1..Len(s) : s[i] = NL
  THEN CHOOSE i \in 1..Len(s) : s[i] = NL /\ \A j \in 1..(i - 1) : s[j] # NL
  ELSE 0

\* str.splitlines(): a final line break does not open an empty last line
RECURSIVE SplitLines(_)
SplitLines(s) ==
  IF s = <<>> THEN <<>>
  ELSE IF FirstNL(s) = 0 THEN <<s>>
  ELSE <<SubSeq(s, 1, FirstNL(s) - 1)>> \o SplitLines(SubSeq(s, FirstNL(s) + 1, Len(s)))

\* "\n".join(lines)
RECURSIVE JoinLines(_)
JoinLines(lines) ==
  IF lines = <<>> THEN <<>>
  ELSE IF Len(lines) = 1 THEN lines[1]
  ELSE lines[1] \o <<NL>> \o JoinLines(Tail(lines))

\* _RemotePane.capture_pane on the stdout of tmux capture-pane: the lines
capture_pane(raw) ==
  IF RStripNL(raw) = <<>> THEN <<>> ELSE SplitLines(RStripNL(raw))

\* str.startswith
StartsWith(s, p) == Len(p) <= Len(s) /\ SubSeq(s, 1, Len(p)) = p

\* ----------------------------------------------------------------- safety
\* A command is a sequence of tokens; " " is white space.  A pattern is a
\* sequence of alternatives (regex |), each a sequence of elements: a token
\* (matched ignoring case) or WS (regex \s+).
WS == "\\s+"
IsSpace(t) == t = " "
Fold(t) == CASE t = "RM" -> "rm" [] t = "-RF" -> "-rf" [] OTHER -> t

\* str.strip()
RECURSIVE LStrip(_)
LStrip(c) == IF c # <<>> /\ IsSpace(c[1]) THEN LStrip(Tail(c)) ELSE c
RECURSIVE RStrip(_)
RStrip(c) ==
  IF c # <<>> /\ IsSpace(c[Len(c)]) THEN RStrip(SubSeq(c, 1, Len(c) - 1)) ELSE c
Strip(c) == RStrip(LStrip(c))

\* elements alt[i..] match a prefix of c[j..]
RECURSIVE MatchAt(_, _, _, _)
MatchAt(alt, c, i, j) ==
  IF i > Len(alt) THEN TRUE
  ELSE IF j > Len(c) THEN FALSE
  ELSE IF alt[i] = WS
       THEN IsSpace(c[j]) /\ (MatchAt(alt, c, i, j + 1) \/ MatchAt(alt, c, i + 1, j + 1))
       ELSE Fold(alt[i]) = Fold(c[j]) /\ MatchAt(alt, c, i + 1, j + 1)

\* re.compile(pattern, re.IGNORECASE).search(c)
Search(pattern, c) ==
  \E a \in 1..Len(pattern) : \E j \in 1..(Len(c) + 1) : MatchAt(pattern[a], c, 1, j)

AnySearch(patterns, c) == \E k \in 1..Len(patterns) : Search(patterns[k], c)

\* SafetyConfig.destructive_patterns
DefaultDestructive ==
  << << <<"rm", WS, "-rf", WS, "/">> >>,
     << <<"rm", WS, "-rf", WS, "$HOME">> >>,
     << <<"rm", WS, "-rf", WS, ".">> >>,
     << <<"mkfs", WS>> >>,
     << <<"dd", WS, "if=">> >>,
     << <<"shutdown", WS, "-">> >>,
     << <<"reboot">> >>,
     << <<":{:">>, <<":&};:">> >> >>

\* SafetyConfig.warn_patterns
DefaultWarn ==
  << << <<"rm", WS, "-rf">> >>,
     << <<"git", WS, "reset", WS, "--hard">> >>,
     << <<"docker", WS, "system", WS, "prune">> >> >>

\* a list with a pattern that starts with white space: \s+rm
CustomPatterns == << << <<WS, "rm">> >> >>

\* the pattern lists update_config is called with
PatternLists == {DefaultDestructive, DefaultWarn, CustomPatterns, <<>>}

\* the commands callers submit
Commands ==
  { <<"ls">>,
    <<"rm", " ", "-rf", " ", "/">>,
    <<" ", "RM", " ", " ", "-RF">>,
    <<"reboot">>,
    <<"mkfs", " ">>,
    <<"rm", " ", "-rf", " ", "mkfs", " ">> }

Ids == 1..MaxId
Sessions == {"work"}
Windows == {"agent"}
Panes == {"0"}
Keys == Sessions \X Windows \X Panes

VARIABLES
  safe_mode,        \* SafetyEvaluator.config.safe_mode
  destructive,      \* SafetyEvaluator._destructive
  warn,             \* SafetyEvaluator._warn
  pending,          \* CommandBridge._pending: command_id -> CommandRequest
  pane_snapshots,   \* CommandBridge._pane_snapshots: key -> text
  tmux_client,      \* SessionManager._tmux_client: None, "live" or "closed"
  current_profile,  \* SessionManager._current_profile
  ret,              \* the last call: what it returned or raised, what it issued
  life,             \* history: the last status each command_id reached
  deferred,         \* history: ids deferred and not approved or rejected since
  log,              \* the files of the audit log and the appends made so far
  handles,          \* the SSH transports and proxy commands the process holds open
  io,               \* the statement a call on the transport has reached
  server,           \* the tmux server of the host: session name -> window names
  running           \* the evaluate and the update_config in progress, by statement

vars == <<safe_mode, destructive, warn, pending, pane_snapshots, tmux_client,
          current_profile, ret, life, deferred, log, handles, io, server,
          running>>


\* ------------------------------------------------------- values and inputs
Requests ==
  [command_id : Ids, task_id : {"t1"}, session : Sessions, window : Windows,
   pane : Panes, command : Commands]

\* SafetyEvaluation(requires_approval, blocked, reason)
SafetyEvaluation(ra, b, r) == [requires_approval |-> ra, blocked |-> b, reason |-> r]
NoEvaluation == SafetyEvaluation(FALSE, FALSE, None)

\* What the remote side and the log file do during one call: the step of
\* _execute that fails ("none": all succeed), the stdout of the capture-pane
\* before and after the send, and whether the audit append succeeds; where the
\* log files are followed, also the size of the serialized record and the
\* file-system failure the append meets.
FailStages == {"get_pane", "capture_before", "send_keys", "capture_after"}
NoFault == [at |-> "none", steps |-> 0]
\* LogRecord.to_json: json.dumps(payload, ensure_ascii=False) is a text of
\* chars characters that the file, opened with encoding="utf-8", stores in
\* bytes bytes (chars <= bytes, equal iff the text is ASCII)
Serialized(chars, bytes) == [chars |-> chars, bytes |-> bytes]
EnvsOver(texts, logs, fails) ==
  {[fail |-> "none", before |-> b, after |-> a, log_ok |-> l,
    log_size |-> Serialized(1, 1), log_fault |-> NoFault] :
      b \in texts, a \in texts, l \in logs}
  \cup {[fail |-> f, before |-> <<>>, after |-> <<>>, log_ok |-> TRUE,
         log_size |-> Serialized(1, 1), log_fault |-> NoFault] : f \in fails}

\* the arguments of a call; key is the (session, window, pane) it names
NoArgs ==
  [command_id |-> 0, command |-> <<>>, key |-> <<>>, approved |-> FALSE,
   profile_name |-> None, safe_mode |-> <<>>]
ReqArgs(request, approved) ==
  [command_id |-> request.command_id, command |-> request.command,
   key |-> <<request.session, request.window, request.pane>>, approved |-> approved,
   profile_name |-> None, safe_mode |-> <<>>]
IdArgs(command_id, approved) ==
  [command_id |-> command_id, command |-> <<>>, key |-> <<>>, approved |-> approved,
   profile_name |-> None, safe_mode |-> <<>>]

\* one tmux command issued over the transport: its name, its target, the keys
\* it sends, and the stdout it came back with
TmuxOp(name, pane, keys, out) == [tmux |-> name, pane |-> pane, keys |-> keys, out |-> out]

\* The outcome of a bridge method: the tables after it, and what the caller
\* sees: status ("raised" with the error when it raised), the CommandResult
\* fields, the tmux commands issued, the audit records appended.
Outcome(pend, snaps, status, error, stdout, safety, approved, ops, logged) ==
  [pending |-> pend, snapshots |-> snaps, status |-> status, error |-> error,
   stdout |-> stdout, safety |-> safety, approved_by_user |-> approved,
   ops |-> ops, logged |-> logged]

Raised(pend, snaps, error, ops) ==
  Outcome(pend, snaps, "raised", error, <<>>, NoEvaluation, FALSE, ops, <<>>)

\* dict helpers
Put(d, k, v) == [x \in (DOMAIN d) \cup {k} |-> IF x = k THEN v ELSE d[x]]
Pop(d, k) == [x \in (DOMAIN d) \ {k} |-> d[x]]
Empty == [x \in {} |-> 0]

\* ----------------------------------------------------------------- safety
\* SafetyEvaluator.evaluate
\* pattern.search(c) for some pattern of the list, for the lists and commands
\* of the model (computed once)
SearchTable ==
  [patterns \in PatternLists |->
     [c \in Commands \cup {Strip(x) : x \in Commands} |-> AnySearch(patterns, c)]]
Matches(patterns, c) == SearchTable[patterns][c]

\* evaluate with the warn patterns tested first
EvaluateWarnFirst(command) ==
  LET c == Strip(command) IN
  IF Matches(warn, c)
  THEN SafetyEvaluation(safe_mode, FALSE, "warn-pattern")
  ELSE IF Matches(destructive, c)
  THEN SafetyEvaluation(IF safe_mode THEN TRUE ELSE FALSE, FALSE, "destructive-pattern")
  ELSE SafetyEvaluation(FALSE, FALSE, None)

\* evaluate with destructive matches hard-blocked in safe mode
EvaluateBlocking(command) ==
  LET c == Strip(command) IN
  IF Matches(destructive, c)
  THEN SafetyEvaluation(FALSE, safe_mode, "destructive-pattern")
  ELSE IF Matches(warn, c)
  THEN SafetyEvaluation(safe_mode, FALSE, "warn-pattern")
  ELSE SafetyEvaluation(FALSE, FALSE, None)

Evaluate(command) ==
  LET c == Strip(command) IN
  IF Matches(destructive, c)
  THEN SafetyEvaluation(IF safe_mode THEN TRUE ELSE FALSE, FALSE, "destructive-pattern")
  ELSE IF Matches(warn, c)
  THEN SafetyEvaluation(safe_mode, FALSE, "warn-pattern")
  ELSE SafetyEvaluation(FALSE, FALSE, None)

\* evaluate while config.safe_mode is sm
EvaluateUnder(sm, command) ==
  LET c == Strip(command) IN
  IF Matches(destructive, c)
  THEN SafetyEvaluation(IF sm THEN TRUE ELSE FALSE, FALSE, "destructive-pattern")
  ELSE IF Matches(warn, c)
  THEN SafetyEvaluation(sm, FALSE, "warn-pattern")
  ELSE SafetyEvaluation(FALSE, FALSE, None)

\* ----------------------------------------------------------------- bridge
\* _calculate_delta without the prefix test
CalculateDeltaWhole(before, after) == after

\* CommandBridge._calculate_delta
CalculateDelta(before, after) ==
  IF before = <<>> THEN after
  ELSE IF StartsWith(after, before) THEN SubSeq(after, Len(before) + 1, Len(after))
  ELSE after

\* CommandBridge._log: the LogRecord handed to log_writer.append
LogRecord(request, status, evaluation, stdout, approved) ==
  [task_id |-> request.task_id, session |-> request.session,
   window |-> request.window, pane |-> request.pane, command |-> request.command,
   status |-> status, stdout |-> stdout, stderr |-> <<>>,
   safety_state |-> IF status # "blocked"
                    THEN (IF evaluation.reason # None THEN evaluation.reason ELSE "allowed")
                    ELSE "blocked",
   approved_by_user |-> approved]

\* -------------------------------------------------------------- audit log
\* The log directory is a function from slot to file: slot 0 is log_path,
\* slot i is log_path with the suffix ".i".  A file is the sequence of the
\* lines written to it; a line is the n-th record handed to append, the
\* characters of its serialization (len(serialized)), the bytes written for
\* it (the serialization encoded in UTF-8 and the newline), and whether all
\* of them were written.
Line(n, serialized) ==
  [n |-> n, chars |-> serialized.chars, size |-> serialized.bytes + 1, whole |-> TRUE]
NoFiles == [x \in {} |-> <<>>]

\* Path.stat().st_size
RECURSIVE FileSize(_)
FileSize(file) ==
  IF file = <<>> THEN 0 ELSE file[1].size + FileSize(Tail(file))

\* Path.unlink, Path.rename (which replaces the target)
Unlink(files, slot) == [x \in (DOMAIN files) \ {slot} |-> files[x]]
Rename(files, src, dst) ==
  [x \in ((DOMAIN files) \ {src}) \cup {dst} |-> IF x = dst THEN files[src] ELSE files[x]]

\* What the file system does during one append: the step that fails ("none":
\* all succeed) and, for a failing rotation, the number of its unlink and
\* rename calls that succeed first; for a failing write, whether a part of the
\* line (1) or nothing (0) reached the file.
AppendFaults ==
  {NoFault} \cup {[at |-> a, steps |-> 0] : a \in {"stat", "open"}}
  \cup {[at |-> "write", steps |-> k] : k \in 0..1}
  \cup {[at |-> "rotate", steps |-> k] : k \in 0..Backups}

\* the renames of the loop of _rotate_if_needed, from index down to 1
RECURSIVE Shifts(_, _)
Shifts(files, index) ==
  IF index < 1 THEN <<>>
  ELSE (IF index \in DOMAIN files
        THEN <<[op |-> "rename", src |-> index, dst |-> index + 1]>> ELSE <<>>)
       \o Shifts(files, index - 1)

\* a rotation that renames log_path to the lowest backup slot that is free (to
\* the last one if none is) and moves no backup
RotationCallsFirstFree(files) ==
  LET free == {i \in 1..Backups : i \notin DOMAIN files}
      dst == IF free = {} THEN Backups ELSE CHOOSE i \in free : \A j \in free : i <= j
  IN <<[op |-> "rename", src |-> 0, dst |-> dst]>>

\* a rotation that renames log_path to backup 1 and moves no backup
RotationCallsNoShift(files) == <<[op |-> "rename", src |-> 0, dst |-> 1]>>

\* the file-system calls of a rotation, in the order it makes them
RotationCalls(files) ==
  (IF Backups \in DOMAIN files
   THEN <<[op |-> "unlink", src |-> Backups, dst |-> Backups]>> ELSE <<>>)
  \o Shifts(files, Backups - 1)
  \o <<[op |-> "rename", src |-> 0, dst |-> 1]>>

\* the directory after the first k of the calls
RECURSIVE AfterCalls(_, _, _)
AfterCalls(files, calls, k) ==
  IF k = 0 \/ calls = <<>> THEN files
  ELSE AfterCalls(IF calls[1].op = "unlink" THEN Unlink(files, calls[1].src)
                  ELSE Rename(files, calls[1].src, calls[1].dst),
                  Tail(calls), k - 1)

\* StructuredLogWriter._rotate_if_needed
RotateIfNeeded(files, incoming_bytes, fault) ==
  IF 0 \notin DOMAIN files
  THEN [files |-> files, raised |-> FALSE, rotated |-> FALSE]
  ELSE IF fault.at = "stat"
  THEN [files |-> files, raised |-> TRUE, rotated |-> FALSE]
  ELSE IF FileSize(files[0]) + incoming_bytes <= MaxBytes
  THEN [files |-> files, raised |-> FALSE, rotated |-> FALSE]
  ELSE LET calls == RotationCalls(files) IN
       IF fault.at = "rotate" /\ fault.steps < Len(calls)
       THEN [files |-> AfterCalls(files, calls, fault.steps), raised |-> TRUE,
             rotated |-> FALSE]
       ELSE [files |-> AfterCalls(files, calls, Len(calls)), raised |-> FALSE,
             rotated |-> TRUE]

\* StructuredLogWriter.append, run under the lock from start to end: the
\* directory after it, whether it returned (ok) or raised, and whether it
\* rotated
WriterAppend(files, line, fault) ==
  LET r == RotateIfNeeded(files, line.chars + 1, fault)
      old == IF 0 \in DOMAIN r.files THEN r.files[0] ELSE <<>>
      part == [line EXCEPT !.size = line.size - 1, !.whole = FALSE]
      With(file) == [x \in (DOMAIN r.files) \cup {0} |-> IF x = 0 THEN file ELSE r.files[x]]
  IN IF r.raised \/ fault.at = "open"
     THEN [files |-> r.files, ok |-> FALSE, rotated |-> r.rotated]
     ELSE IF fault.at = "write"
     THEN [files |-> With(IF fault.steps = 0 THEN old ELSE old \o <<part>>),
           ok |-> FALSE, rotated |-> r.rotated]
     ELSE [files |-> With(old \o <<line>>), ok |-> TRUE, rotated |-> r.rotated]

\* The same append run by threads that share the writer, one statement at a
\* time.  A thread is at pc "idle" (outside append), "lock" (at with
\* self._lock), "check", "rotate", "open", "write", "newline" or "release"
\* (inside the with block); n and serialized are its record, calls the unlink
\* and rename calls its rotation still has to make, handle the slot where the
\* file it opened now is (-1: none, or a file that was unlinked or replaced),
\* start the directory it found when it took the lock.
Threads == {1, 2}
Idle ==
  [pc |-> "idle", n |-> 0, serialized |-> Serialized(0, 0), calls |-> <<>>,
   handle |-> -1, start |-> NoFiles]
Section == {"check", "rotate", "open", "write", "newline", "release"}

\* with self._lock taken by a thread that does not wait for it to be free
LockIgnored(lock) == TRUE

\* with self._lock: threading.Lock.acquire returns once no thread holds it
LockFree(lock) == lock = 0

\* the slot of an open file after the file-system call
HandleAfter(handle, call) ==
  IF handle = call.dst THEN -1
  ELSE IF handle = call.src THEN (IF call.op = "unlink" THEN -1 ELSE call.dst)
  ELSE handle

\* fh.write(serialized) and fh.write("\n") on the file at slot handle
WriteText(files, handle, line) ==
  IF handle \notin DOMAIN files THEN files
  ELSE [files EXCEPT ![handle] =
          @ \o <<[line EXCEPT !.size = line.size - 1, !.whole = FALSE]>>]
WriteNewline(files, handle, line) ==
  IF handle \notin DOMAIN files THEN files
  ELSE LET file == files[handle] IN
       IF file # <<>> /\ file[Len(file)].n = line.n /\ ~file[Len(file)].whole
       THEN [files EXCEPT ![handle] = SubSeq(file, 1, Len(file) - 1) \o <<line>>]
       ELSE [files EXCEPT ![handle] =
               file \o <<[n |-> 0, chars |-> 0, size |-> 1, whole |-> FALSE]>>]

\* get_pane that asks tmux for the panes a second time when the first
\* list-panes failed
GetPaneRetrying(request, env) ==
  IF tmux_client = None
  THEN [error |-> "SessionError: Server not connected", ops |-> <<>>]
  ELSE IF tmux_client = "closed"
  THEN [error |-> "SessionError: SSH session not established", ops |-> <<>>]
  ELSE IF env.fail = "get_pane"
  THEN [error |-> "SessionError: remote",
        ops |-> <<TmuxOp("list-panes", request.pane, <<>>, <<>>),
                  TmuxOp("list-panes", request.pane, <<>>, <<>>)>>]
  ELSE [error |-> None, ops |-> <<TmuxOp("list-panes", request.pane, <<>>, <<>>)>>]

\* SessionManager.get_pane and _RemoteTmuxClient.get_pane: the error it raises
\* (None: the pane is resolved) and the tmux commands it issued
GetPane(request, env) ==
  IF tmux_client = None
  THEN [error |-> "SessionError: Server not connected", ops |-> <<>>]
  ELSE IF tmux_client = "closed"
  THEN [error |-> "SessionError: SSH session not established", ops |-> <<>>]
  ELSE [error |-> IF env.fail = "get_pane" THEN "SessionError: remote" ELSE None,
        ops |-> <<TmuxOp("list-panes", request.pane, <<>>, <<>>)>>]

\* _execute without the capture before the send: the cache entry, or the
\* empty text, is the prior snapshot
ExecuteNoFresh(request, evaluation, approved, pend, env) ==
  LET key == <<request.session, request.window, request.pane>>
      gp == GetPane(request, env)
      before_snapshot == IF key \in DOMAIN pane_snapshots THEN pane_snapshots[key] ELSE <<>>
      ops2 == gp.ops \o <<TmuxOp("send-keys", request.pane, request.command, <<>>)>>
      ops3 == ops2 \o <<TmuxOp("capture-pane", request.pane, <<>>, env.after)>>
      after_snapshot == JoinLines(capture_pane(env.after))
      delta == CalculateDelta(before_snapshot, after_snapshot)
      snaps == Put(pane_snapshots, key, after_snapshot)
  IN IF gp.error # None THEN Raised(pend, pane_snapshots, gp.error, gp.ops)
     ELSE IF env.fail \in {"capture_before", "send_keys"}
     THEN Raised(pend, pane_snapshots, "SessionError: remote", ops2)
     ELSE IF env.fail = "capture_after"
     THEN Raised(pend, pane_snapshots, "SessionError: remote", ops3)
     ELSE IF ~env.log_ok THEN Raised(pend, snaps, "OSError", ops3)
     ELSE Outcome(pend, snaps, "executed", None, delta, evaluation, approved, ops3,
                  <<LogRecord(request, "executed", evaluation, delta, approved)>>)

\* _execute that stores the prior snapshot in the cache before the send
ExecuteCachingBefore(request, evaluation, approved, pend, env) ==
  LET key == <<request.session, request.window, request.pane>>
      gp == GetPane(request, env)
      cached == IF key \in DOMAIN pane_snapshots THEN pane_snapshots[key] ELSE <<>>
      fresh == cached = <<>>
      ops1 == IF fresh
              THEN gp.ops \o <<TmuxOp("capture-pane", request.pane, <<>>, env.before)>>
              ELSE gp.ops
      before_snapshot == IF fresh THEN JoinLines(capture_pane(env.before)) ELSE cached
      ops2 == ops1 \o <<TmuxOp("send-keys", request.pane, request.command, <<>>)>>
      ops3 == ops2 \o <<TmuxOp("capture-pane", request.pane, <<>>, env.after)>>
      after_snapshot == JoinLines(capture_pane(env.after))
      delta == CalculateDelta(before_snapshot, after_snapshot)
      early == Put(pane_snapshots, key, before_snapshot)
      snaps == Put(pane_snapshots, key, after_snapshot)
  IN IF gp.error # None THEN Raised(pend, pane_snapshots, gp.error, gp.ops)
     ELSE IF fresh /\ env.fail = "capture_before"
     THEN Raised(pend, pane_snapshots, "SessionError: remote", ops1)
     ELSE IF env.fail = "send_keys"
     THEN Raised(pend, early, "SessionError: remote", ops2)
     ELSE IF env.fail = "capture_after"
     THEN Raised(pend, early, "SessionError: remote", ops3)
     ELSE IF ~env.log_ok THEN Raised(pend, snaps, "OSError", ops3)
     ELSE Outcome(pend, snaps, "executed", None, delta, evaluation, approved, ops3,
                  <<LogRecord(request, "executed", evaluation, delta, approved)>>)

\* _execute with the send issued again when the first has returned
ExecuteResending(request, evaluation, approved, pend, env) ==
  LET key == <<request.session, request.window, request.pane>>
      gp == GetPane(request, env)
      cached == IF key \in DOMAIN pane_snapshots THEN pane_snapshots[key] ELSE <<>>
      fresh == cached = <<>>
      ops1 == IF fresh
              THEN gp.ops \o <<TmuxOp("capture-pane", request.pane, <<>>, env.before)>>
              ELSE gp.ops
      before_snapshot == IF fresh THEN JoinLines(capture_pane(env.before)) ELSE cached
      ops2 == ops1 \o <<TmuxOp("send-keys", request.pane, request.command, <<>>),
                         TmuxOp("send-keys", request.pane, request.command, <<>>)>>
      ops3 == ops2 \o <<TmuxOp("capture-pane", request.pane, <<>>, env.after)>>
      after_snapshot == JoinLines(capture_pane(env.after))
      delta == CalculateDelta(before_snapshot, after_snapshot)
      snaps == Put(pane_snapshots, key, after_snapshot)
  IN IF gp.error # None THEN Raised(pend, pane_snapshots, gp.error, gp.ops)
     ELSE IF fresh /\ env.fail = "capture_before"
     THEN Raised(pend, pane_snapshots, "SessionError: remote", ops1)
     ELSE IF env.fail = "send_keys"
     THEN Raised(pend, pane_snapshots, "SessionError: remote", ops2)
     ELSE IF env.fail = "capture_after"
     THEN Raised(pend, pane_snapshots, "SessionError: remote", ops3)
     ELSE IF ~env.log_ok THEN Raised(pend, snaps, "OSError", ops3)
     ELSE Outcome(pend, snaps, "executed", None, delta, evaluation, approved, ops3,
                  <<LogRecord(request, "executed", evaluation, delta, approved)>>)

\* CommandBridge._execute; pend is the pending table at the time of the call
Execute(request, evaluation, approved, pend, env) ==
  LET key == <<request.session, request.window, request.pane>>
      gp == GetPane(request, env)
      cached == IF key \in DOMAIN pane_snapshots THEN pane_snapshots[key] ELSE <<>>
      fresh == cached = <<>>
      ops1 == IF fresh
              THEN gp.ops \o <<TmuxOp("capture-pane", request.pane, <<>>, env.before)>>
              ELSE gp.ops
      before_snapshot == IF fresh THEN JoinLines(capture_pane(env.before)) ELSE cached
      ops2 == ops1 \o <<TmuxOp("send-keys", request.pane, request.command, <<>>)>>
      ops3 == ops2 \o <<TmuxOp("capture-pane", request.pane, <<>>, env.after)>>
      after_snapshot == JoinLines(capture_pane(env.after))
      delta == CalculateDelta(before_snapshot, after_snapshot)
      snaps == Put(pane_snapshots, key, after_snapshot)
  IN IF gp.error # None THEN Raised(pend, pane_snapshots, gp.error, gp.ops)
     ELSE IF fresh /\ env.fail = "capture_before"
     THEN Raised(pend, pane_snapshots, "SessionError: remote", ops1)
     ELSE IF env.fail = "send_keys"
     THEN Raised(pend, pane_snapshots, "SessionError: remote", ops2)
     ELSE IF env.fail = "capture_after"
     THEN Raised(pend, pane_snapshots, "SessionError: remote", ops3)
     ELSE IF ~env.log_ok THEN Raised(pend, snaps, "OSError", ops3)
     ELSE Outcome(pend, snaps, "executed", None, delta, evaluation, approved, ops3,
                  <<LogRecord(request, "executed", evaluation, delta, approved)>>)

\* submit_command without the approval gate
SubmitCommandEager(request, approved, env) ==
  Execute(request, Evaluate(request.command), approved, pending, env)

\* submit_command that refreshes the snapshot cache before it defers
SubmitCommandRefreshing(request, approved, env) ==
  LET evaluation == Evaluate(request.command)
      key == <<request.session, request.window, request.pane>>
  IN IF evaluation.requires_approval /\ ~approved
     THEN LET pend == Put(pending, request.command_id, request)
              snaps == Put(pane_snapshots, key, <<>>)
          IN IF ~env.log_ok THEN Raised(pend, snaps, "OSError", <<>>)
             ELSE Outcome(pend, snaps, "pending_approval", None, <<>>, evaluation,
                          FALSE, <<>>,
                          <<LogRecord(request, "pending_approval", evaluation, <<>>, FALSE)>>)
     ELSE Execute(request, evaluation, approved, pending, env)

\* submit_command that also parks the requests it executes
SubmitCommandParking(request, approved, env) ==
  LET evaluation == Evaluate(request.command)
      pend == Put(pending, request.command_id, request)
  IN IF evaluation.requires_approval /\ ~approved
     THEN IF ~env.log_ok THEN Raised(pend, pane_snapshots, "OSError", <<>>)
          ELSE Outcome(pend, pane_snapshots, "pending_approval", None, <<>>, evaluation,
                       FALSE, <<>>,
                       <<LogRecord(request, "pending_approval", evaluation, <<>>, FALSE)>>)
     ELSE Execute(request, evaluation, approved, pend, env)

\* submit_command that keeps the request already parked under the command_id
SubmitCommandKeepingFirst(request, approved, env) ==
  LET evaluation == Evaluate(request.command) IN
  IF evaluation.requires_approval /\ ~approved
  THEN LET pend == IF request.command_id \in DOMAIN pending THEN pending
                   ELSE Put(pending, request.command_id, request)
       IN IF ~env.log_ok THEN Raised(pend, pane_snapshots, "OSError", <<>>)
          ELSE Outcome(pend, pane_snapshots, "pending_approval", None, <<>>, evaluation,
                       FALSE, <<>>,
                       <<LogRecord(request, "pending_approval", evaluation, <<>>, FALSE)>>)
  ELSE Execute(request, evaluation, approved, pending, env)

\* submit_command that writes a record of an execution that raised
SubmitCommandRecordingFailure(request, approved, env) ==
  LET evaluation == Evaluate(request.command) IN
  IF evaluation.requires_approval /\ ~approved
  THEN LET pend == Put(pending, request.command_id, request) IN
       IF ~env.log_ok THEN Raised(pend, pane_snapshots, "OSError", <<>>)
       ELSE Outcome(pend, pane_snapshots, "pending_approval", None, <<>>, evaluation,
                    FALSE, <<>>,
                    <<LogRecord(request, "pending_approval", evaluation, <<>>, FALSE)>>)
  ELSE LET o == Execute(request, evaluation, approved, pending, env) IN
       IF o.status = "raised" /\ o.error # "OSError"
       THEN [o EXCEPT !.logged = <<LogRecord(request, "failed", evaluation, <<>>, approved)>>]
       ELSE o

\* CommandBridge.submit_command
SubmitCommand(request, approved, env) ==
  LET evaluation == Evaluate(request.command) IN
  IF evaluation.blocked
  THEN IF ~env.log_ok THEN Raised(pending, pane_snapshots, "OSError", <<>>)
       ELSE Outcome(pending, pane_snapshots, "blocked", None, <<>>, evaluation, approved,
                    <<>>, <<LogRecord(request, "blocked", evaluation, <<>>, approved)>>)
  ELSE IF evaluation.requires_approval /\ ~approved
  THEN LET pend == Put(pending, request.command_id, request) IN
       IF ~env.log_ok THEN Raised(pend, pane_snapshots, "OSError", <<>>)
       ELSE Outcome(pend, pane_snapshots, "pending_approval", None, <<>>, evaluation,
                    FALSE, <<>>,
                    <<LogRecord(request, "pending_approval", evaluation, <<>>, FALSE)>>)
  ELSE Execute(request, evaluation, approved, pending, env)

\* submit_command while config.safe_mode is sm
SubmitCommandUnder(sm, request, approved, env) ==
  LET evaluation == EvaluateUnder(sm, request.command) IN
  IF evaluation.blocked
  THEN IF ~env.log_ok THEN Raised(pending, pane_snapshots, "OSError", <<>>)
       ELSE Outcome(pending, pane_snapshots, "blocked", None, <<>>, evaluation, approved,
                    <<>>, <<LogRecord(request, "blocked", evaluation, <<>>, approved)>>)
  ELSE IF evaluation.requires_approval /\ ~approved
  THEN LET pend == Put(pending, request.command_id, request) IN
       IF ~env.log_ok THEN Raised(pend, pane_snapshots, "OSError", <<>>)
       ELSE Outcome(pend, pane_snapshots, "pending_approval", None, <<>>, evaluation,
                    FALSE, <<>>,
                    <<LogRecord(request, "pending_approval", evaluation, <<>>, FALSE)>>)
  ELSE Execute(request, evaluation, approved, pending, env)


\* execute_pending that drops the whole table on an unknown id
ExecutePendingClearing(command_id, approved_by_user, env) ==
  IF command_id \notin DOMAIN pending
  THEN Raised(Empty, pane_snapshots, "KeyError", <<>>)
  ELSE Execute(pending[command_id], Evaluate(pending[command_id].command),
               approved_by_user, Pop(pending, command_id), env)

\* execute_pending that keeps the entry it runs
ExecutePendingKeeping(command_id, approved_by_user, env) ==
  IF command_id \notin DOMAIN pending
  THEN Raised(pending, pane_snapshots, "KeyError", <<>>)
  ELSE Execute(pending[command_id], Evaluate(pending[command_id].command),
               approved_by_user, pending, env)

\* CommandBridge.execute_pending
\* execute_pending that runs the command under the verdict of its submission,
\* which required approval
ExecutePendingStale(command_id, approved_by_user, env) ==
  IF command_id \notin DOMAIN pending
  THEN Raised(pending, pane_snapshots, "KeyError", <<>>)
  ELSE LET request == pending[command_id]
           evaluation == [Evaluate(request.command) EXCEPT !.requires_approval = TRUE]
       IN Execute(request, evaluation, approved_by_user, Pop(pending, command_id), env)

\* execute_pending that sends the command only if it is approved or no
\* longer requires approval, and defers it again otherwise
ExecutePendingGated(command_id, approved_by_user, env) ==
  IF command_id \notin DOMAIN pending
  THEN Raised(pending, pane_snapshots, "KeyError", <<>>)
  ELSE LET request == pending[command_id]
           evaluation == Evaluate(request.command)
       IN IF evaluation.requires_approval /\ ~approved_by_user
          THEN Outcome(pending, pane_snapshots, "pending_approval", None, <<>>,
                       evaluation, FALSE, <<>>,
                       <<LogRecord(request, "pending_approval", evaluation, <<>>, FALSE)>>)
          ELSE Execute(request, evaluation, approved_by_user,
                       Pop(pending, command_id), env)

\* execute_pending that puts the request back when the execution raised
ExecutePendingRestoring(command_id, approved_by_user, env) ==
  IF command_id \notin DOMAIN pending
  THEN Raised(pending, pane_snapshots, "KeyError", <<>>)
  ELSE LET o == Execute(pending[command_id], Evaluate(pending[command_id].command),
                        approved_by_user, Pop(pending, command_id), env)
       IN IF o.status = "raised" THEN [o EXCEPT !.pending = pending] ELSE o

ExecutePending(command_id, approved_by_user, env) ==
  IF command_id \notin DOMAIN pending
  THEN Raised(pending, pane_snapshots, "KeyError", <<>>)
  ELSE LET request == pending[command_id]
           evaluation == Evaluate(request.command)
       IN Execute(request, evaluation, approved_by_user, Pop(pending, command_id), env)

\* reject_pending that writes no audit record
RejectPendingSilent(command_id, env) ==
  IF command_id \notin DOMAIN pending
  THEN Raised(pending, pane_snapshots, "KeyError", <<>>)
  ELSE Outcome(Pop(pending, command_id), pane_snapshots, None, None, <<>>,
               NoEvaluation, FALSE, <<>>, <<>>)

\* reject_pending that returns although the append of its record raised
RejectPendingSwallowing(command_id, env) ==
  IF command_id \notin DOMAIN pending
  THEN Raised(pending, pane_snapshots, "KeyError", <<>>)
  ELSE Outcome(Pop(pending, command_id), pane_snapshots, None, None, <<>>,
               NoEvaluation, FALSE, <<>>,
               <<LogRecord(pending[command_id], "denied",
                           Evaluate(pending[command_id].command), <<>>, FALSE)>>)

\* reject_pending that keeps the entry it denies
RejectPendingKeeping(command_id, env) ==
  IF command_id \notin DOMAIN pending
  THEN Raised(pending, pane_snapshots, "KeyError", <<>>)
  ELSE IF ~env.log_ok THEN Raised(pending, pane_snapshots, "OSError", <<>>)
  ELSE Outcome(pending, pane_snapshots, None, None, <<>>, NoEvaluation, FALSE, <<>>,
               <<LogRecord(pending[command_id], "denied",
                           Evaluate(pending[command_id].command), <<>>, FALSE)>>)

\* CommandBridge.reject_pending (returns None)
RejectPending(command_id, env) ==
  IF command_id \notin DOMAIN pending
  THEN Raised(pending, pane_snapshots, "KeyError", <<>>)
  ELSE LET request == pending[command_id]
           evaluation == Evaluate(request.command)
           pend == Pop(pending, command_id)
       IN IF ~env.log_ok THEN Raised(pend, pane_snapshots, "OSError", <<>>)
          ELSE Outcome(pend, pane_snapshots, None, None, <<>>, NoEvaluation, FALSE, <<>>,
                       <<LogRecord(request, "denied", evaluation, <<>>, FALSE)>>)

\* CommandBridge.read_context (returns the text as stdout)
ReadContext(key, env) ==
  LET request == [session |-> key[1], window |-> key[2], pane |-> key[3]]
      gp == GetPane(request, env)
      ops1 == gp.ops \o <<TmuxOp("capture-pane", request.pane, <<>>, env.after)>>
      concatenated == JoinLines(capture_pane(env.after))
  IN IF gp.error # None THEN Raised(pending, pane_snapshots, gp.error, gp.ops)
     ELSE IF env.fail = "capture_after"
     THEN Raised(pending, pane_snapshots, "SessionError: remote", ops1)
     ELSE Outcome(pending, Put(pane_snapshots, key, concatenated), None, None,
                  concatenated, NoEvaluation, FALSE, ops1, <<>>)

\* MCPAgentServer._tool_approve_command, _tool_reject_command: a KeyError of
\* the bridge becomes the session error "Unknown pending command"
ToolError(o) ==
  IF o.error = "KeyError"
  THEN [o EXCEPT !.error = "SessionError: Unknown pending command"]
  ELSE o
ToolApproveCommand(command_id, env) ==
  LET o == ToolError(ExecutePending(command_id, TRUE, env)) IN
  IF o.status = "raised" THEN o ELSE [o EXCEPT !.approved_by_user = TRUE]
ToolRejectCommand(command_id, env) ==
  LET o == ToolError(RejectPending(command_id, env)) IN
  IF o.status = "raised" THEN o ELSE [o EXCEPT !.status = "rejected"]
\* _tool_submit_command that puts safe_mode back only when submit_command
\* returned
ToolSubmitCommandLeaking(request, force, safe_mode_override, env) ==
  LET override == IF force THEN <<FALSE>> ELSE safe_mode_override
      during == IF override # <<>> THEN override[1] ELSE safe_mode
      result == SubmitCommandUnder(during, request, force, env)
  IN [result |-> result,
      safe_mode |-> IF result.status = "raised" THEN during ELSE safe_mode]
\* _tool_submit_command that passes approved = False whatever force is
ToolSubmitCommandUnapproved(request, force, safe_mode_override, env) ==
  LET override == IF force THEN <<FALSE>> ELSE safe_mode_override
      during == IF override # <<>> THEN override[1] ELSE safe_mode
  IN [result |-> SubmitCommandUnder(during, request, FALSE, env),
      safe_mode |-> safe_mode]
\* _tool_submit_command: the outcome of the submit_command it makes under the
\* override, and config.safe_mode when the finally clause has run
ToolSubmitCommand(request, force, safe_mode_override, env) ==
  LET override == IF force THEN <<FALSE>> ELSE safe_mode_override
      old_safe_mode == safe_mode
      during == IF override # <<>> THEN override[1] ELSE old_safe_mode
      result == SubmitCommandUnder(during, request, force, env)
  IN [result |-> result,
      safe_mode |-> IF override # <<>> THEN old_safe_mode ELSE during]

\* -------------------------------------------------------- session manager
Profiles == {"dev"}                 \* the names the profile store knows
ProxyProfiles == {"jump"}           \* known too, with a proxycommand option
ProfileNames == Profiles \cup {"nope"}
ConnectResults == {"ok", "connect_failed", "ensure_session_failed"}

\* _RemoteTmuxClient.close on the client the manager holds
Close(client) == IF client = None THEN None ELSE "closed"

\* connect that closes the client it holds before it looks the profile up
SessionConnectClosingFirst(profile_name, result) ==
  IF profile_name \notin Profiles \cup ProxyProfiles
  THEN <<Close(tmux_client), current_profile, "SessionError: Profile not found">>
  ELSE IF result = "connect_failed"
  THEN <<Close(tmux_client), current_profile, "SessionError: SSH connection failed">>
  ELSE <<"live", profile_name,
         IF result = "ensure_session_failed" THEN "SessionError: remote" ELSE None>>

\* SessionManager.connect: <<_tmux_client, _current_profile, error>> after it
SessionConnect(profile_name, result) ==
  IF profile_name \notin Profiles \cup ProxyProfiles
  THEN <<tmux_client, current_profile, "SessionError: Profile not found">>
  ELSE IF result = "connect_failed"
  THEN <<Close(tmux_client), current_profile, "SessionError: SSH connection failed">>
  ELSE <<"live", profile_name,
         IF result = "ensure_session_failed" THEN "SessionError: remote" ELSE None>>

\* SessionManager.disconnect
SessionDisconnect == <<None, None>>

\* SessionManager.ensure_session and _RemoteTmuxClient.ensure_session: the
\* manager refuses without a client, _run_tmux refuses without a transport,
\* and tmux is asked for the session otherwise
EnsureSession(env) ==
  IF tmux_client = None
  THEN Raised(pending, pane_snapshots, "SessionError: Server not connected", <<>>)
  ELSE IF tmux_client = "closed"
  THEN Raised(pending, pane_snapshots, "SessionError: SSH session not established", <<>>)
  ELSE LET ops == <<TmuxOp("has-session", None, <<>>, <<>>)>> IN
       IF env.fail = "ensure_session"
       THEN Raised(pending, pane_snapshots, "SessionError: remote", ops)
       ELSE Outcome(pending, pane_snapshots, None, None, <<>>, NoEvaluation,
                    FALSE, ops, <<>>)

\* The tmux server as the commands of ensure_session see it: the sessions by
\* name, each with the names of its windows.
NoSessions == [x \in {} |-> {}]
SessionNames == {"work", "play"}
WindowNames == {"agent", "logs"}
DefaultWindow == "bash"     \* the name tmux gives the first window of a session
EnsureStages == {"new-session", "list-windows", "new-window"}

\* one tmux command on the server: [server, returncode]; fail names the
\* command that exits non-zero for a reason of its own
HasSession(srv, session_name) ==
  [server |-> srv, returncode |-> IF session_name \in DOMAIN srv THEN 0 ELSE 1]
NewSession(srv, session_name, window_name, fail) ==
  IF fail = "new-session" \/ session_name \in DOMAIN srv
  THEN [server |-> srv, returncode |-> 1]
  ELSE [server |-> [x \in DOMAIN srv \cup {session_name} |->
                      IF x = session_name
                      THEN {IF window_name = None THEN DefaultWindow ELSE window_name}
                      ELSE srv[x]],
        returncode |-> 0]
ListWindows(srv, session_name, fail) ==
  IF fail = "list-windows" \/ session_name \notin DOMAIN srv
  THEN [server |-> srv, returncode |-> 1, stdout |-> {}]
  ELSE [server |-> srv, returncode |-> 0, stdout |-> srv[session_name]]
NewWindow(srv, session_name, window_name, fail) ==
  IF fail = "new-window" \/ session_name \notin DOMAIN srv
  THEN [server |-> srv, returncode |-> 1]
  ELSE [server |-> [srv EXCEPT ![session_name] = @ \cup {window_name}],
        returncode |-> 0]

\* ensure_session that creates the session without asking whether it exists
ClientEnsureSessionBlind(srv, session_name, window_name, fail) ==
  LET created == NewSession(srv, session_name, window_name, fail)
      ops1 == <<TmuxOp("new-session", session_name, <<>>, <<>>)>>
  IN IF created.returncode # 0
     THEN [server |-> created.server, ops |-> ops1, error |-> "SessionError: remote"]
     ELSE [server |-> created.server, ops |-> ops1, error |-> None]

\* _RemoteTmuxClient.ensure_session: [server, ops, error] after it
ClientEnsureSession(srv, session_name, window_name, fail) ==
  LET exists == HasSession(srv, session_name)
      ops1 == <<TmuxOp("has-session", session_name, <<>>, <<>>)>>
      created == NewSession(exists.server, session_name, window_name, fail)
      ops2 == IF exists.returncode # 0
              THEN ops1 \o <<TmuxOp("new-session", session_name, <<>>, <<>>)>>
              ELSE ops1
      srv2 == IF exists.returncode # 0 THEN created.server ELSE exists.server
      listed == ListWindows(srv2, session_name, fail)
      ops3 == ops2 \o <<TmuxOp("list-windows", session_name, <<>>, <<>>)>>
      window == NewWindow(listed.server, session_name, window_name, fail)
      ops4 == ops3 \o <<TmuxOp("new-window", session_name, <<>>, <<>>)>>
  IN IF exists.returncode # 0 /\ created.returncode # 0
     THEN [server |-> srv2, ops |-> ops2, error |-> "SessionError: remote"]
     ELSE IF window_name = None
     THEN [server |-> srv2, ops |-> ops2, error |-> None]
     ELSE IF listed.returncode # 0
     THEN [server |-> srv2, ops |-> ops3, error |-> "SessionError: remote"]
     ELSE IF window_name \in listed.stdout
     THEN [server |-> srv2, ops |-> ops3, error |-> None]
     ELSE IF window.returncode # 0
     THEN [server |-> window.server, ops |-> ops4, error |-> "SessionError: remote"]
     ELSE [server |-> window.server, ops |-> ops4, error |-> None]

\* The handles of one _RemoteTmuxClient: is _ssh an open transport, is
\* _proxy an open proxy command.  The client the manager holds has its _ssh
\* in tmux_client and its _proxy in handles.proxy.
ClientHandles(client, h) == [ssh |-> client = "live", proxy |-> h.proxy]

\* close() that releases the proxy only together with a transport
ClientCloseWithTransport(c) ==
  IF c.ssh THEN [ssh |-> FALSE, proxy |-> FALSE] ELSE c

\* _RemoteTmuxClient.close: each handle that is not None is closed and set
\* to None, the transport first
ClientClose(c) ==
  LET afterSsh == IF c.ssh THEN [c EXCEPT !.ssh = FALSE] ELSE c IN
  IF afterSsh.proxy THEN [afterSsh EXCEPT !.proxy = FALSE] ELSE afterSsh

\* the counts of open handles after a client went from c to d
Released(h, c, d) ==
  [h EXCEPT !.transports = IF c.ssh /\ ~d.ssh THEN @ - 1 ELSE @,
            !.proxies = IF c.proxy /\ ~d.proxy THEN @ - 1 ELSE @]
Acquired(h, c) ==
  [h EXCEPT !.transports = IF c.ssh THEN @ + 1 ELSE @,
            !.proxies = IF c.proxy THEN @ + 1 ELSE @]

\* what was done to the handles, in order, when a client went from c to d
\* under close, and when a client was constructed
CloseCalls(c, d) ==
  (IF c.ssh /\ ~d.ssh THEN <<"ssh.close">> ELSE <<>>)
  \o (IF c.proxy /\ ~d.proxy THEN <<"proxy.close">> ELSE <<>>)
ConstructCalls(c) ==
  (IF c.proxy THEN <<"proxy.open">> ELSE <<>>)
  \o (IF c.ssh THEN <<"ssh.open">> ELSE <<"ssh.refused">>)

\* _RemoteTmuxClient.__init__ and _connect: the handles of the client under
\* construction when _connect returns or raises.  The proxy command is
\* started before client.connect is tried.
Constructed(profile_name, result) ==
  [ssh |-> result # "connect_failed", proxy |-> profile_name \in ProxyProfiles]

Max2(a, b) == IF a >= b THEN a ELSE b

\* connect that constructs the new client before it closes the prior one
ConnectHandlesNewFirst(profile_name, result) ==
  IF profile_name \notin Profiles \cup ProxyProfiles
  THEN [handles EXCEPT !.peak = handles.transports, !.calls = <<>>]
  ELSE LET prior == ClientHandles(tmux_client, handles)
           built == Constructed(profile_name, result)
           h1 == Acquired(handles, built)
           closed == IF tmux_client # None THEN ClientClose(prior) ELSE prior
           h2 == Released(h1, prior, closed)
           calls == ConstructCalls(built) \o CloseCalls(prior, closed)
       IN
       IF result = "connect_failed"
       THEN [Released(h2, built, ClientClose(built)) EXCEPT
               !.proxy = closed.proxy,
               !.peak = Max2(handles.transports, h1.transports),
               !.calls = calls \o CloseCalls(built, ClientClose(built))]
       ELSE [h2 EXCEPT !.proxy = built.proxy,
                       !.peak = Max2(handles.transports, h1.transports),
                       !.calls = calls,
                       !.connected = @ \/ result = "ok"]

\* SessionManager.connect, seen from the handles: the prior client is closed,
\* then the new one is constructed.  A constructor that raises leaves a
\* client nobody holds; its __del__ closes it when the SessionError that
\* carries its frames is dropped by the caller.  peak is the largest number
\* of transports open at one time during the call, calls what the call did
\* to the handles, in order; connected records that a connect returned since
\* the start or the last disconnect.
ConnectHandles(profile_name, result) ==
  IF profile_name \notin Profiles \cup ProxyProfiles
  THEN [handles EXCEPT !.peak = handles.transports, !.calls = <<>>]
  ELSE LET prior == ClientHandles(tmux_client, handles)
           closed == IF tmux_client # None THEN ClientClose(prior) ELSE prior
           h1 == Released(handles, prior, closed)
           built == Constructed(profile_name, result)
           h2 == Acquired(h1, built)
           calls == CloseCalls(prior, closed) \o ConstructCalls(built)
       IN
       IF result = "connect_failed"
       THEN [Released(h2, built, ClientClose(built)) EXCEPT
               !.proxy = closed.proxy,
               !.peak = Max2(handles.transports, h2.transports),
               !.calls = calls \o CloseCalls(built, ClientClose(built))]
       ELSE [h2 EXCEPT !.proxy = built.proxy,
                       !.peak = Max2(handles.transports, h2.transports),
                       !.calls = calls,
                       !.connected = @ \/ result = "ok"]

\* SessionManager.disconnect, seen from the handles
DisconnectHandles ==
  LET prior == ClientHandles(tmux_client, handles)
      closed == IF tmux_client # None THEN ClientClose(prior) ELSE prior
  IN [Released(handles, prior, closed) EXCEPT
        !.proxy = closed.proxy, !.peak = handles.transports,
        !.calls = CloseCalls(prior, closed), !.connected = FALSE]

\* ---------------------------------------------------------------- actions
\* what the caller of the last call saw
RetOf(op, args, o) ==
  [op |-> op, args |-> args, status |-> o.status, error |-> o.error,
   stdout |-> o.stdout, safety |-> o.safety, approved_by_user |-> o.approved_by_user,
   ops |-> o.ops, logged |-> o.logged]

Plain(status, error) ==
  Outcome(pending, pane_snapshots, status, error, <<>>, NoEvaluation, FALSE, <<>>, <<>>)

safetyVars == <<safe_mode, destructive, warn>>
sessionVars == <<tmux_client, current_profile, handles, io, server, running>>

\* the value of life in the behaviours that keep no record of it
Untracked == [i \in Ids |-> "untracked"]
\* the value of log in the behaviours that see of an append only whether it
\* returned
Unfollowed ==
  [followed |-> FALSE, files |-> NoFiles, n |-> 0, fault |-> "none", faults |-> 0,
   lock |-> 0, threads |-> [t \in Threads |-> Idle]]
\* no call on the transport is in progress
NoCall == [pc |-> "idle", command |-> None]
\* the value of handles in the behaviours that do not count them
Uncounted ==
  [followed |-> FALSE, transports |-> 0, proxies |-> 0, proxy |-> FALSE,
   peak |-> 0, calls |-> <<>>, connected |-> FALSE]

\* no evaluate and no update_config is in progress; the configuration in
\* force is the one the evaluator was constructed with
NoneRunning(sm) ==
  [evaluate |-> [pc |-> "idle", command |-> <<>>, seen_d |-> <<>>, seen_w |-> <<>>,
                 overlapped |-> FALSE],
   update |-> [pc |-> "idle", sm |-> <<>>, d |-> <<>>, w |-> <<>>, stores |-> <<>>,
               old |-> [sm |-> sm, d |-> DefaultDestructive, w |-> DefaultWarn],
               new |-> [sm |-> sm, d |-> DefaultDestructive, w |-> DefaultWarn]]]

\* one SessionManager, newly constructed, with its handles counted
InitSession ==
  /\ safe_mode = TRUE
  /\ destructive = DefaultDestructive
  /\ warn = DefaultWarn
  /\ pending = Empty
  /\ pane_snapshots = Empty
  /\ tmux_client = None
  /\ current_profile = None
  /\ ret = RetOf("init", NoArgs, Plain(None, None))
  /\ life = Untracked
  /\ deferred = {}
  /\ log = Unfollowed
  /\ handles = [Uncounted EXCEPT !.followed = TRUE]
  /\ io = NoCall
  /\ server = NoSessions
  /\ running = NoneRunning(safe_mode)

Init ==
  /\ safe_mode \in BOOLEAN
  /\ destructive = DefaultDestructive
  /\ warn = DefaultWarn
  /\ pending = Empty
  /\ pane_snapshots = Empty
  /\ tmux_client = None
  /\ current_profile = None
  /\ ret = RetOf("init", NoArgs, Plain(None, None))
  /\ life = Untracked
  /\ deferred = {}
  /\ log = Unfollowed
  /\ handles = Uncounted
  /\ io = NoCall
  /\ server = NoSessions
  /\ running = NoneRunning(safe_mode)

\* the same, with the life of every command_id recorded from here on
InitLife ==
  /\ safe_mode \in BOOLEAN
  /\ destructive = DefaultDestructive
  /\ warn = DefaultWarn
  /\ pending = Empty
  /\ pane_snapshots = Empty
  /\ tmux_client = None
  /\ current_profile = None
  /\ ret = RetOf("init", NoArgs, Plain(None, None))
  /\ life = [i \in Ids |-> "none"]
  /\ deferred = {}
  /\ log = Unfollowed
  /\ handles = Uncounted
  /\ io = NoCall
  /\ server = NoSessions
  /\ running = NoneRunning(safe_mode)

\* the same under the default safe_mode, with the files of the audit log
\* followed from an empty directory
InitAudit ==
  /\ safe_mode = TRUE
  /\ destructive = DefaultDestructive
  /\ warn = DefaultWarn
  /\ pending = Empty
  /\ pane_snapshots = Empty
  /\ tmux_client = None
  /\ current_profile = None
  /\ ret = RetOf("init", NoArgs, Plain(None, None))
  /\ life = Untracked
  /\ deferred = {}
  /\ log = [Unfollowed EXCEPT !.followed = TRUE]
  /\ handles = Uncounted
  /\ io = NoCall
  /\ server = NoSessions
  /\ running = NoneRunning(safe_mode)

\* ---------------------------------------------------------------- history
\* The history variables record what the calls so far did with each
\* command_id; they read the call of the step (ret'), never the tables.
SubmitStep == ret'.op = "submit_command"
\* the submit_command tool, and the verdict of the submit in the step: the
\* tool's submit is evaluated under its override
ToolSubmitStep == ret'.op = "submit_command_tool"
Submits == SubmitStep \/ ToolSubmitStep
StepVerdict ==
  IF ToolSubmitStep /\ ret'.args.safe_mode # <<>>
  THEN EvaluateUnder(ret'.args.safe_mode[1], ret'.args.command)
  ELSE Evaluate(ret'.args.command)
ResolveStep == ret'.op \in {"execute_pending", "approve_command",
                            "reject_pending", "reject_command"}

\* deferred: the ids whose last submit_command had a verdict that requires
\* approval and approved = false, with no execute_pending or reject_pending
\* called for the id since
TrackDeferred ==
  LET id == ret'.args.command_id
      verdict == StepVerdict
  IN deferred' =
       IF Submits /\ verdict.requires_approval /\ ~ret'.args.approved
       THEN deferred \cup {id}
       ELSE IF ResolveStep THEN deferred \ {id}
       ELSE deferred

\* life[id] is "none" before the first submit_command with the id, then the
\* status that call returned (if it raised: "pending_approval" if it deferred
\* the request, "submitted" if not), then "executed" or "rejected" once an
\* approval or a rejection of the id succeeded; it is "reused" from the second
\* submit_command with the id on.  A behaviour that starts with life
\* Untracked keeps no such record.
TrackLife ==
  LET id == ret'.args.command_id
      verdict == StepVerdict
  IN
  life' =
    IF life = Untracked THEN life
    ELSE IF Submits
    THEN [life EXCEPT ![id] =
            IF life[id] # "none" THEN "reused"
            ELSE IF ret'.status # "raised" THEN ret'.status
            ELSE IF verdict.requires_approval /\ ~ret'.args.approved
            THEN "pending_approval"
            ELSE "submitted"]
    ELSE IF ResolveStep /\ ret'.status # "raised" /\ life[id] # "reused"
    THEN [life EXCEPT ![id] =
            IF ret'.status = "executed" THEN "executed" ELSE "rejected"]
    ELSE life

Track == TrackDeferred /\ TrackLife

\* env holds no choice that the call with outcome o never consulted: a
\* failure that did not happen, a capture that was not taken, a failed
\* append that was not attempted
Consulted(env, o) ==
  LET done == o.ops # <<>> /\ (o.status # "raised" \/ o.error = "OSError") IN
  /\ env.fail # "none" => o.status = "raised" /\ o.error = "SessionError: remote"
  /\ (~log.followed /\ ~env.log_ok) => o.error = "OSError"
  /\ env.after # <<>> => done
  /\ env.before # <<>> =>
        done /\ Len(SelectSeq(o.ops, LAMBDA x : x.tmux = "capture-pane")) = 2

\* log after an append with result w that met the fault: n counts the lines
\* that reached a file, whole or in part
Followed(w, fault) ==
  [log EXCEPT
     !.files = w.files,
     !.n = IF \E x \in DOMAIN w.files : \E i \in DOMAIN w.files[x] :
                w.files[x][i].n = log.n + 1
           THEN log.n + 1 ELSE log.n,
     !.fault = fault.at,
     !.faults = IF fault = NoFault THEN log.faults ELSE log.faults + 1]

\* log after a call that makes no append: log.fault is the failure that the
\* append of the last call met
NoAppend == log' = [log EXCEPT !.fault = "none"]

\* the call with outcome o handed a record to log_writer.append
Attempted(o) == o.logged # <<>> \/ o.error = "OSError"

\* CommandBridge._log calling StructuredLogWriter.append: the log files after
\* the call with outcome o; the append returns to the bridge (env.log_ok) iff
\* the writer's append does
Audit(o, env) ==
  IF ~log.followed THEN UNCHANGED log
  ELSE IF ~Attempted(o)
  THEN env.log_ok /\ env.log_fault = NoFault /\ NoAppend
  ELSE LET w == WriterAppend(log.files, Line(log.n + 1, env.log_size), env.log_fault) IN
       /\ log.n < MaxAppends
       /\ env.log_ok = w.ok
       /\ env.log_fault # NoFault => ~w.ok /\ log.faults < MaxFaults
       /\ log' = Followed(w, env.log_fault)

\* the bridge's tables and the caller's view after outcome o of call op
Apply(op, args, o, env) ==
  /\ pending' = o.pending
  /\ pane_snapshots' = o.snapshots
  /\ ret' = RetOf(op, args, o)
  /\ Audit(o, env)
  /\ UNCHANGED <<safetyVars, sessionVars>>
  /\ Track

Submit(request, approved, env) ==
  LET o == SubmitCommand(request, approved, env) IN
  /\ Consulted(env, o)
  /\ Apply("submit_command", ReqArgs(request, approved), o, env)

ExecutePendingCall(command_id, approved_by_user, env) ==
  LET o == ExecutePending(command_id, approved_by_user, env) IN
  /\ Consulted(env, o)
  /\ Apply("execute_pending", IdArgs(command_id, approved_by_user), o, env)

\* the submit_command tool; force is params.get("force", False), the
\* override params.get("safe_mode")
ToolSubmitCall(request, force, safe_mode_override, env) ==
  LET t == ToolSubmitCommand(request, force, safe_mode_override, env)
      o == t.result
  IN /\ Consulted(env, o)
     /\ pending' = o.pending
     /\ pane_snapshots' = o.snapshots
     /\ safe_mode' = t.safe_mode
     /\ ret' = RetOf("submit_command_tool",
                     [ReqArgs(request, force) EXCEPT
                        !.safe_mode = IF force THEN <<FALSE>> ELSE safe_mode_override],
                     o)
     /\ Audit(o, env)
     /\ UNCHANGED <<destructive, warn, sessionVars>>
     /\ Track

ApproveCommandCall(command_id, env) ==
  LET o == ToolApproveCommand(command_id, env) IN
  /\ Consulted(env, o)
  /\ Apply("approve_command", IdArgs(command_id, TRUE), o, env)

RejectPendingCall(command_id, env) ==
  LET o == RejectPending(command_id, env) IN
  /\ Consulted(env, o)
  /\ Apply("reject_pending", IdArgs(command_id, FALSE), o, env)

RejectCommandCall(command_id, env) ==
  LET o == ToolRejectCommand(command_id, env) IN
  /\ Consulted(env, o)
  /\ Apply("reject_command", IdArgs(command_id, FALSE), o, env)

ReadContextCall(key, env) ==
  LET o == ReadContext(key, env) IN
  /\ Consulted(env, o)
  /\ Apply("read_context", [NoArgs EXCEPT !.key = key], o, env)

\* StructuredLogWriter.append called on its own
AppendCall(serialized, fault) ==
  LET w == WriterAppend(log.files, Line(log.n + 1, serialized), fault) IN
  /\ log.followed
  /\ log.n < MaxAppends
  /\ fault # NoFault => ~w.ok /\ log.faults < MaxFaults
  /\ log' = Followed(w, fault)
  /\ ret' = RetOf("append", NoArgs,
                  IF w.ok THEN Plain(None, None) ELSE Plain("raised", "OSError"))
  /\ UNCHANGED <<safetyVars, sessionVars, pending, pane_snapshots>>
  /\ Track

\* One statement of StructuredLogWriter.append in thread t.
\* append is called with a record
ThreadCall(t, serialized) ==
  /\ log.followed /\ log.threads[t].pc = "idle"
  /\ log.n + Cardinality({u \in Threads : log.threads[u].pc = "lock"}) < MaxAppends
  /\ log' = [log EXCEPT !.threads[t] = [Idle EXCEPT !.pc = "lock", !.serialized = serialized]]
  /\ UNCHANGED <<safetyVars, sessionVars, pending, pane_snapshots, ret>>
  /\ Track

\* with self._lock
Acquire(t) ==
  /\ log.threads[t].pc = "lock"
  /\ LockFree(log.lock)
  /\ log' = [log EXCEPT !.lock = t, !.n = log.n + 1,
                        !.threads[t] = [@ EXCEPT !.pc = "check", !.n = log.n + 1,
                                                 !.start = log.files]]
  /\ UNCHANGED <<safetyVars, sessionVars, pending, pane_snapshots, ret>>
  /\ Track

\* _rotate_if_needed up to the decision to rotate
Check(t) ==
  LET me == log.threads[t]
      rotate == /\ 0 \in DOMAIN log.files
                /\ FileSize(log.files[0]) + me.serialized.chars + 1 > MaxBytes
  IN /\ me.pc = "check"
     /\ log' = [log EXCEPT !.threads[t] =
                   IF rotate
                   THEN [@ EXCEPT !.pc = "rotate", !.calls = RotationCalls(log.files)]
                   ELSE [@ EXCEPT !.pc = "open"]]
     /\ UNCHANGED <<safetyVars, sessionVars, pending, pane_snapshots, ret>>
     /\ Track

\* one unlink or rename of the rotation; it raises if its source is gone
RotateStep(t) ==
  LET me == log.threads[t]
      call == me.calls[1]
      files == IF call.op = "unlink" THEN Unlink(log.files, call.src)
               ELSE Rename(log.files, call.src, call.dst)
  IN /\ me.pc = "rotate"
     /\ log' =
          IF call.src \notin DOMAIN log.files
          THEN [log EXCEPT !.threads[t] = [@ EXCEPT !.pc = "release", !.calls = <<>>]]
          ELSE [log EXCEPT
                  !.files = files,
                  !.threads = [u \in Threads |->
                     IF u = t
                     THEN [me EXCEPT !.calls = Tail(me.calls),
                                     !.pc = IF Tail(me.calls) = <<>> THEN "open" ELSE "rotate"]
                     ELSE [log.threads[u] EXCEPT !.handle = HandleAfter(@, call)]]]
     /\ UNCHANGED <<safetyVars, sessionVars, pending, pane_snapshots, ret>>
     /\ Track

\* self.log_path.open("a")
OpenStep(t) ==
  /\ log.threads[t].pc = "open"
  /\ log' = [log EXCEPT
               !.files = [x \in (DOMAIN log.files) \cup {0} |->
                            IF x \in DOMAIN log.files THEN log.files[x] ELSE <<>>],
               !.threads[t] = [@ EXCEPT !.pc = "write", !.handle = 0]]
  /\ UNCHANGED <<safetyVars, sessionVars, pending, pane_snapshots, ret>>
  /\ Track

\* fh.write(serialized)
WriteStep(t) ==
  LET me == log.threads[t] IN
  /\ me.pc = "write"
  /\ log' = [log EXCEPT
               !.files = WriteText(log.files, me.handle, Line(me.n, me.serialized)),
               !.threads[t] = [@ EXCEPT !.pc = "newline"]]
  /\ UNCHANGED <<safetyVars, sessionVars, pending, pane_snapshots, ret>>
  /\ Track

\* fh.write("\n") and the end of the inner with block
NewlineStep(t) ==
  LET me == log.threads[t] IN
  /\ me.pc = "newline"
  /\ log' = [log EXCEPT
               !.files = WriteNewline(log.files, me.handle, Line(me.n, me.serialized)),
               !.threads[t] = [@ EXCEPT !.pc = "release", !.handle = -1]]
  /\ UNCHANGED <<safetyVars, sessionVars, pending, pane_snapshots, ret>>
  /\ Track

\* the end of with self._lock
Release(t) ==
  /\ log.threads[t].pc = "release"
  /\ log' = [log EXCEPT !.lock = 0, !.threads[t] = Idle]
  /\ UNCHANGED <<safetyVars, sessionVars, pending, pane_snapshots, ret>>
  /\ Track

\* SafetyEvaluator.evaluate called on its own
EvaluateCall(command) ==
  /\ ret' = RetOf("evaluate", [NoArgs EXCEPT !.command = command],
                  [Plain(None, None) EXCEPT !.safety = Evaluate(command)])
  /\ UNCHANGED <<safetyVars, sessionVars, pending, pane_snapshots>>
  /\ NoAppend
  /\ Track

\* SafetyEvaluator.update_config; an argument is <<>> (None) or <<value>>
UpdateConfig(sm, d, w) ==
  /\ safe_mode' = IF sm # <<>> THEN sm[1] ELSE safe_mode
  /\ destructive' = IF d # <<>> THEN d[1] ELSE destructive
  /\ warn' = IF w # <<>> THEN w[1] ELSE warn
  /\ ret' = RetOf("update_config", NoArgs, Plain(None, None))
  /\ UNCHANGED <<sessionVars, pending, pane_snapshots>>
  /\ NoAppend
  /\ Track

\* evaluate and update_config, one attribute read or write at a time: one
\* thread evaluates while another updates.  A list is read once, by the for
\* statement, which then runs over the list object it read.
\* the values an attribute takes while update_config replaces its list: the
\* comprehension builds the new list aside and one assignment stores it
ReplacementInPlace(old, new) == [k \in 1..(Len(new) + 1) |-> SubSeq(new, 1, k - 1)]
Replacement(old, new) == <<new>>
threadVars ==
  <<pending, pane_snapshots, tmux_client, current_profile, handles, io, server>>
\* update_config entered
UpdateStart(sm, d, w) ==
  /\ running.update.pc = "idle"
  /\ running' =
       [running EXCEPT
          !.update = [pc |-> "safe_mode", sm |-> sm, d |-> d, w |-> w, stores |-> <<>>,
                      old |-> [sm |-> safe_mode, d |-> destructive, w |-> warn],
                      new |-> [sm |-> IF sm # <<>> THEN sm[1] ELSE safe_mode,
                               d |-> IF d # <<>> THEN d[1] ELSE destructive,
                               w |-> IF w # <<>> THEN w[1] ELSE warn]],
          !.evaluate.overlapped = @ \/ running.evaluate.pc # "idle"]
  /\ UNCHANGED <<safetyVars, threadVars, ret>> /\ NoAppend /\ Track
\* if safe_mode is not None: self.config.safe_mode = safe_mode
UpdateSafeMode ==
  /\ running.update.pc = "safe_mode"
  /\ safe_mode' = IF running.update.sm # <<>> THEN running.update.sm[1] ELSE safe_mode
  /\ running' =
       [running EXCEPT
          !.update.pc = "destructive",
          !.update.stores = IF running.update.d # <<>>
                            THEN Replacement(destructive, running.update.d[1])
                            ELSE <<>>]
  /\ UNCHANGED <<destructive, warn, threadVars, ret>> /\ NoAppend /\ Track
\* if destructive_patterns is not None: self._destructive = [...]
UpdateDestructive ==
  /\ running.update.pc = "destructive"
  /\ IF running.update.stores # <<>>
     THEN /\ destructive' = Head(running.update.stores)
          /\ running' = [running EXCEPT !.update.stores = Tail(@)]
     ELSE /\ destructive' = destructive
          /\ running' =
               [running EXCEPT
                  !.update.pc = "warn",
                  !.update.stores = IF running.update.w # <<>>
                                    THEN Replacement(warn, running.update.w[1])
                                    ELSE <<>>]
  /\ UNCHANGED <<safe_mode, warn, threadVars, ret>> /\ NoAppend /\ Track
\* if warn_patterns is not None: self._warn = [...]; update_config returns
UpdateWarn ==
  /\ running.update.pc = "warn"
  /\ IF running.update.stores # <<>>
     THEN /\ warn' = Head(running.update.stores)
          /\ running' = [running EXCEPT !.update.stores = Tail(@)]
          /\ UNCHANGED ret
     ELSE /\ warn' = warn
          /\ running' = [running EXCEPT !.update.pc = "idle"]
          /\ ret' = RetOf("update_config", NoArgs, Plain(None, None))
  /\ UNCHANGED <<safe_mode, destructive, threadVars>> /\ NoAppend /\ Track
\* evaluate entered: command = command.strip()
EvaluateStart(command) ==
  /\ running.evaluate.pc = "idle"
  /\ running' =
       [running EXCEPT
          !.evaluate = [pc |-> "destructive", command |-> command, seen_d |-> <<>>,
                        seen_w |-> <<>>,
                        overlapped |-> running.update.pc # "idle"]]
  /\ UNCHANGED <<safetyVars, threadVars, ret>> /\ NoAppend /\ Track
EvaluateReturns(evaluation) ==
  ret' = RetOf("evaluate", [NoArgs EXCEPT !.command = running.evaluate.command],
               [Plain(None, None) EXCEPT !.safety = evaluation])
\* for pattern in self._destructive: if pattern.search(command)
EvaluateDestructive ==
  LET found == AnySearch(destructive, Strip(running.evaluate.command)) IN
  /\ running.evaluate.pc = "destructive"
  /\ running' =
       [running EXCEPT
          !.evaluate.seen_d = <<destructive>>,
          !.evaluate.pc = IF found THEN "return_destructive" ELSE "warn"]
  /\ UNCHANGED <<safetyVars, threadVars, ret>> /\ NoAppend /\ Track
\* for pattern in self._warn: if pattern.search(command); with no match,
\* evaluate returns
EvaluateWarn ==
  LET found == AnySearch(warn, Strip(running.evaluate.command)) IN
  /\ running.evaluate.pc = "warn"
  /\ running' =
       [running EXCEPT
          !.evaluate.seen_w = <<warn>>,
          !.evaluate.pc = IF found THEN "return_warn" ELSE "idle"]
  /\ IF found THEN UNCHANGED ret
     ELSE EvaluateReturns(SafetyEvaluation(FALSE, FALSE, None))
  /\ UNCHANGED <<safetyVars, threadVars>> /\ NoAppend /\ Track
\* return SafetyEvaluation(requires_approval=... self.config.safe_mode ...)
EvaluateReturn ==
  /\ running.evaluate.pc \in {"return_destructive", "return_warn"}
  /\ running' = [running EXCEPT !.evaluate.pc = "idle"]
  /\ IF running.evaluate.pc = "return_destructive"
     THEN EvaluateReturns(SafetyEvaluation(IF safe_mode THEN TRUE ELSE FALSE, FALSE,
                                           "destructive-pattern"))
     ELSE EvaluateReturns(SafetyEvaluation(safe_mode, FALSE, "warn-pattern"))
  /\ UNCHANGED <<safetyVars, threadVars>> /\ NoAppend /\ Track

EnsureSessionCall(env) ==
  LET o == EnsureSession(env) IN
  /\ Consulted(env, o)
  /\ Apply("ensure_session", NoArgs, o, env)

Connect(profile_name, result) ==
  LET c == SessionConnect(profile_name, result) IN
  /\ tmux_client' = c[1]
  /\ current_profile' = c[2]
  /\ handles' = IF handles.followed THEN ConnectHandles(profile_name, result)
                ELSE handles
  /\ ret' = RetOf("connect", [NoArgs EXCEPT !.profile_name = profile_name],
                  Plain(IF c[3] = None THEN None ELSE "raised", c[3]))
  /\ UNCHANGED <<safetyVars, pending, pane_snapshots, io, server, running>>
  /\ NoAppend
  /\ Track

Disconnect ==
  /\ tmux_client' = SessionDisconnect[1]
  /\ current_profile' = SessionDisconnect[2]
  /\ handles' = IF handles.followed THEN DisconnectHandles ELSE handles
  /\ ret' = RetOf("disconnect", NoArgs, Plain(None, None))
  /\ UNCHANGED <<safetyVars, pending, pane_snapshots, io, server, running>>
  /\ NoAppend
  /\ Track

\* _connect and _run_tmux, one blocking library call at a time.  The peer
\* answers a call or stays silent; a call that was given the timeout ends
\* with the library's timeout error when the peer stays silent, a call that
\* was given none waits for the peer.
TmuxCommands == {"has-session", "list-panes", "capture-pane", "send-keys"}
Ended(op, command, status, error) ==
  /\ ret' = RetOf(op, NoArgs,
                  Outcome(pending, pane_snapshots, status, error, <<>>, NoEvaluation,
                          FALSE,
                          IF command = None THEN <<>>
                          ELSE <<TmuxOp(command, None, <<>>, <<>>)>>,
                          <<>>))
  /\ io' = NoCall
idleVars ==
  <<safetyVars, pending, pane_snapshots, current_profile, handles, server, running>>

\* _RemoteTmuxClient.__init__ -> _connect, entered
ConnectStart ==
  /\ io.pc = "idle" /\ tmux_client = None
  /\ io' = [pc |-> "connect", command |-> None]
  /\ UNCHANGED <<idleVars, tmux_client, ret>> /\ NoAppend /\ Track
\* client.connect(timeout=self._timeout): the transport, or socket.timeout
\* (an OSError) turned into a SessionError
ClientConnect(answered) ==
  /\ io.pc = "connect"
  /\ tmux_client' = IF answered THEN "live" ELSE tmux_client
  /\ IF answered THEN Ended("connect", None, None, None)
     ELSE Ended("connect", None, "raised", "SessionError: Unable to reach")
  /\ UNCHANGED idleVars /\ NoAppend /\ Track
\* _run_tmux entered with a tmux command
RunTmux(command) ==
  /\ io.pc = "idle" /\ tmux_client = "live"
  /\ io' = [pc |-> "exec_command", command |-> command]
  /\ UNCHANGED <<idleVars, tmux_client, ret>> /\ NoAppend /\ Track
\* self._ssh.exec_command(command, timeout=self._timeout): the channel, or an
\* SSHException turned into a SessionError
ExecCommand(answered) ==
  /\ io.pc = "exec_command"
  /\ IF answered
     THEN io' = [io EXCEPT !.pc = "recv_exit_status"] /\ UNCHANGED ret
     ELSE Ended("run_tmux", io.command, "raised", "SessionError: SSH connection lost")
  /\ UNCHANGED <<idleVars, tmux_client>> /\ NoAppend /\ Track
\* stdout.channel.recv_exit_status(), called without a timeout: returns when
\* the peer reports the exit status
RecvExitStatus ==
  /\ io.pc = "recv_exit_status"
  /\ io' = [io EXCEPT !.pc = "read"]
  /\ UNCHANGED <<idleVars, tmux_client, ret>> /\ NoAppend /\ Track
\* stdout.read() and stderr.read() on the channel with the timeout: the
\* output, or socket.timeout, which is no SSHException and leaves _run_tmux
\* as it is
Read(answered) ==
  /\ io.pc = "read"
  /\ IF answered THEN Ended("run_tmux", io.command, None, None)
     ELSE Ended("run_tmux", io.command, "raised", "TimeoutError")
  /\ UNCHANGED <<idleVars, tmux_client>> /\ NoAppend /\ Track

\* _RemoteTmuxClient.ensure_session on the connected client
ClientEnsureSessionCall(session_name, window_name, fail) ==
  LET e == ClientEnsureSession(server, session_name, window_name, fail) IN
  /\ io.pc = "idle" /\ tmux_client = "live"
  /\ fail \in EnsureStages => e.error # None /\ e.ops[Len(e.ops)].tmux = fail
  /\ server' = e.server
  /\ ret' = RetOf("ensure_session",
                  [NoArgs EXCEPT !.key = <<session_name, window_name>>],
                  Outcome(pending, pane_snapshots,
                          IF e.error = None THEN None ELSE "raised", e.error, <<>>,
                          NoEvaluation, FALSE, e.ops, <<>>))
  /\ UNCHANGED <<safetyVars, pending, pane_snapshots, tmux_client, current_profile,
                 handles, io, running>>
  /\ NoAppend /\ Track
\* somebody else on the host ends a session or closes a window; the session
\* ends with its last window.  ret takes note of it, so that the call before
\* it and the call after it are two calls.
KillSession(session_name) ==
  /\ session_name \in DOMAIN server
  /\ server' = [x \in DOMAIN server \ {session_name} |-> server[x]]
  /\ ret' = RetOf("kill-session", NoArgs, Plain(None, None))
  /\ UNCHANGED <<safetyVars, pending, pane_snapshots, tmux_client, current_profile,
                 handles, io, log, life, deferred, running>>
KillWindow(session_name, window_name) ==
  /\ session_name \in DOMAIN server
  /\ window_name \in server[session_name]
  /\ server' = IF server[session_name] = {window_name}
               THEN [x \in DOMAIN server \ {session_name} |-> server[x]]
               ELSE [server EXCEPT ![session_name] = @ \ {window_name}]
  /\ ret' = RetOf("kill-window", NoArgs, Plain(None, None))
  /\ UNCHANGED <<safetyVars, pending, pane_snapshots, tmux_client, current_profile,
                 handles, io, log, life, deferred, running>>

\* ---------------------------------------------------------- specifications
Optional(S) == {<<>>} \cup {<<v>> : v \in S}

\* Spec: the approval state machine.  Commands that are allowed, that need
\* approval, and that match a pattern only before they are trimmed; every
\* failure of the remote steps and of the audit append; two pane contents;
\* safe_mode switched at run time.
SubmitCommands == {<<"ls">>, <<"rm", " ", "-rf", " ", "/">>, <<"mkfs", " ">>}
SubmitRequests == {r \in Requests : r.command \in SubmitCommands}
Screens == {<<>>, <<"a">>}
Envs == EnvsOver(Screens, BOOLEAN, FailStages)
LogEnvs == EnvsOver({<<>>}, BOOLEAN, {})
ReadEnvs == EnvsOver(Screens, {TRUE}, {"get_pane", "capture_after"})

Next ==
  \/ \E request \in SubmitRequests, approved \in BOOLEAN, env \in Envs :
        Submit(request, approved, env)
  \/ \E id \in Ids, approved_by_user \in BOOLEAN, env \in Envs :
        ExecutePendingCall(id, approved_by_user, env)
  \/ \E id \in Ids, env \in Envs : ApproveCommandCall(id, env)
  \/ \E id \in Ids, env \in LogEnvs : RejectPendingCall(id, env)
  \/ \E id \in Ids, env \in LogEnvs : RejectCommandCall(id, env)
  \/ \E key \in Keys, env \in ReadEnvs : ReadContextCall(key, env)
  \/ \E sm \in Optional(BOOLEAN) : UpdateConfig(sm, <<>>, <<>>)
  \/ \E name \in ProfileNames, result \in ConnectResults : Connect(name, result)
  \/ Disconnect

Spec == Init /\ [][Next]_vars

\* SpecLife: the calls of the bridge with the life of every command_id
\* recorded, on a pane that shows nothing.
LifeCommands == {<<"ls">>, <<"rm", " ", "-rf", " ", "/">>}
LifeRequests == {r \in Requests : r.command \in LifeCommands}
LifeEnvs == EnvsOver({<<>>}, BOOLEAN, {"get_pane", "send_keys"})

NextLife ==
  \/ \E request \in LifeRequests, approved \in BOOLEAN, env \in LifeEnvs :
        Submit(request, approved, env)
  \/ \E id \in Ids, env \in LifeEnvs : ExecutePendingCall(id, TRUE, env)
  \/ \E id \in Ids, env \in LogEnvs : RejectPendingCall(id, env)
  \/ \E sm \in Optional(BOOLEAN) : UpdateConfig(sm, <<>>, <<>>)
  \/ Connect("dev", "ok")

SpecLife == InitLife /\ [][NextLife]_vars

\* SpecPolicy: the evaluator under every pattern list and safe_mode, and the
\* submits it decides.
PolicyRequests == {r \in Requests : r.command_id = 1}
PolicyEnvs == EnvsOver({<<>>}, {TRUE}, {})
NextPolicy ==
  \/ \E sm \in Optional(BOOLEAN), d \in Optional(PatternLists),
        w \in Optional(PatternLists) : UpdateConfig(sm, d, w)
  \/ \E command \in Commands : EvaluateCall(command)
  \/ \E request \in PolicyRequests, env \in PolicyEnvs : Submit(request, FALSE, env)
  \/ Connect("dev", "ok")

SpecPolicy == Init /\ [][NextPolicy]_vars

\* SpecDelta: executions and context reads on one pane, with every raw
\* capture of up to MaxTextLen characters before and after the send.
DeltaEnvs == EnvsOver(RawTexts, {TRUE}, {})
DeltaRequests == {r \in Requests : r.command_id = 1 /\ r.command = <<"ls">>}
NextDelta ==
  \/ \E request \in DeltaRequests, env \in DeltaEnvs : Submit(request, FALSE, env)
  \/ \E key \in Keys, env \in DeltaEnvs : ReadContextCall(key, env)
  \/ Connect("dev", "ok")

SpecDelta == Init /\ [][NextDelta]_vars

\* SpecCache: executions and context reads on two panes, with every failure
\* of the remote steps and of the audit append.
CachePanes == Panes \cup {"1"}
CacheKeys == Sessions \X Windows \X CachePanes
CacheRequests ==
  [command_id : {1}, task_id : {"t1"}, session : Sessions, window : Windows,
   pane : CachePanes, command : LifeCommands]
NextCache ==
  \/ \E request \in CacheRequests, env \in Envs : Submit(request, FALSE, env)
  \/ \E env \in Envs : ExecutePendingCall(1, TRUE, env)
  \/ \E key \in CacheKeys, env \in ReadEnvs : ReadContextCall(key, env)
  \/ Connect("dev", "ok")

SpecCache == Init /\ [][NextCache]_vars

\* SpecSession: one SessionManager under connects to a plain profile, to a
\* profile with a proxy command and to an unknown name, each connect
\* succeeding, failing to establish the transport or failing to ensure the
\* session; disconnects; and the calls that need the client in between.
SessionCommands == {<<"ls">>, <<"rm", " ", "-rf", " ", "/">>}
SessionRequests == {r \in Requests : r.command \in SessionCommands /\ r.command_id = 1}
SessionEnvs == EnvsOver(Screens, {TRUE}, FailStages \cup {"ensure_session"})
NextSession ==
  \/ \E name \in Profiles \cup ProxyProfiles \cup {"nope"}, result \in ConnectResults :
        Connect(name, result)
  \/ Disconnect
  \/ \E env \in SessionEnvs : EnsureSessionCall(env)
  \/ \E request \in SessionRequests, env \in SessionEnvs : Submit(request, FALSE, env)
  \/ \E env \in SessionEnvs : ExecutePendingCall(1, TRUE, env)
  \/ \E key \in Keys, env \in SessionEnvs : ReadContextCall(key, env)

SpecSession == InitSession /\ [][NextSession]_vars

\* SpecIo: connect and the tmux commands of one client against a peer that
\* answers or stays silent at each blocking call.  The steps of the program
\* and the timeouts of the library are taken when they can be; nothing makes
\* the peer answer.
NextIo ==
  \/ ConnectStart
  \/ \E answered \in BOOLEAN : ClientConnect(answered)
  \/ \E command \in TmuxCommands : RunTmux(command)
  \/ \E answered \in BOOLEAN : ExecCommand(answered)
  \/ RecvExitStatus
  \/ \E answered \in BOOLEAN : Read(answered)
  \/ io.pc = "idle" /\ Disconnect

SpecIo ==
  /\ InitAudit /\ [][NextIo]_vars
  /\ WF_vars(\E answered \in BOOLEAN : ClientConnect(answered))
  /\ WF_vars(\E answered \in BOOLEAN : ExecCommand(answered))
  /\ WF_vars(\E answered \in BOOLEAN : Read(answered))

\* SpecServer: ensure_session of one connected client for two session names,
\* with and without a window name, each of its creating commands failing in
\* turn, on a server where sessions and windows also disappear.
NextServer ==
  \/ ConnectStart
  \/ ClientConnect(TRUE)
  \/ \E session_name \in SessionNames, window_name \in WindowNames \cup {None},
        fail \in EnsureStages \cup {"none"} :
        ClientEnsureSessionCall(session_name, window_name, fail)
  \/ \E session_name \in SessionNames : KillSession(session_name)
  \/ \E session_name \in SessionNames, window_name \in WindowNames \cup {DefaultWindow} :
        KillWindow(session_name, window_name)

SpecServer == InitAudit /\ [][NextServer]_vars

\* SpecReeval: commands deferred under one configuration and executed under
\* another: safe_mode and both pattern lists change between the submit and
\* the execute_pending.
NextReeval ==
  \/ \E sm \in Optional(BOOLEAN), d \in Optional(PatternLists),
        w \in Optional(PatternLists) : UpdateConfig(sm, d, w)
  \/ \E request \in PolicyRequests, env \in PolicyEnvs : Submit(request, FALSE, env)
  \/ \E approved_by_user \in BOOLEAN, env \in PolicyEnvs :
        ExecutePendingCall(1, approved_by_user, env)
  \/ Connect("dev", "ok")

SpecReeval == Init /\ [][NextReeval]_vars

\* SpecConfig: one evaluate and one update_config at a time, interleaved statement by
\* statement.
ConfigLists == {DefaultWarn, CustomPatterns}
ConfigCommands == {<<"ls">>, <<"rm", " ", "-rf", " ", "/">>}
NextConfig ==
  \/ \E sm \in Optional(BOOLEAN), d \in Optional(ConfigLists),
        w \in Optional(ConfigLists) : UpdateStart(sm, d, w)
  \/ UpdateSafeMode
  \/ UpdateDestructive
  \/ UpdateWarn
  \/ \E command \in ConfigCommands : EvaluateStart(command)
  \/ EvaluateDestructive
  \/ EvaluateWarn
  \/ EvaluateReturn

SpecConfig == Init /\ [][NextConfig]_vars

\* SpecTool: the submit_command tool with and without force and override,
\* beside the bridge's submit_command, the approve and reject tools and
\* update_config, with remote failures.
ToolRequests == {r \in Requests : r.command \in LifeCommands}
ToolEnvs == EnvsOver({<<>>}, {TRUE}, FailStages)
NextTool ==
  \/ \E request \in ToolRequests, force \in BOOLEAN,
        safe_mode_override \in Optional(BOOLEAN), env \in ToolEnvs :
        ToolSubmitCall(request, force, safe_mode_override, env)
  \/ \E request \in ToolRequests, env \in ToolEnvs : Submit(request, FALSE, env)
  \/ \E id \in Ids, env \in ToolEnvs : ApproveCommandCall(id, env)
  \/ \E id \in Ids, env \in ToolEnvs : RejectCommandCall(id, env)
  \/ \E sm \in BOOLEAN : UpdateConfig(<<sm>>, <<>>, <<>>)
  \/ Connect("dev", "ok")
  \/ Disconnect

SpecTool == Init /\ [][NextTool]_vars

\* SpecOverwrite: two destructive commands submitted under the same ids, with
\* the life of every command_id recorded.
OverwriteCommands == {<<"rm", " ", "-rf", " ", "/">>, <<"reboot">>}
OverwriteRequests == {r \in Requests : r.command \in OverwriteCommands}
NextOverwrite ==
  \/ \E request \in OverwriteRequests, env \in LifeEnvs : Submit(request, FALSE, env)
  \/ \E id \in Ids, env \in LifeEnvs : ExecutePendingCall(id, TRUE, env)
  \/ \E id \in Ids, env \in LogEnvs : RejectPendingCall(id, env)
  \/ \E sm \in BOOLEAN : UpdateConfig(<<sm>>, <<>>, <<>>)
  \/ Connect("dev", "ok")

SpecOverwrite == InitLife /\ [][NextOverwrite]_vars

\* SpecLog: the appends of one writer, one at a time, with ASCII records that
\* fit several to a file, one to a file, and none, and a record with one
\* two-byte character, through rotations and file-system failures.
RecordSizes ==
  {Serialized(1, 1), Serialized(2, 2), Serialized(MaxBytes, MaxBytes), Serialized(1, 2)}
NextLog ==
  \E serialized \in RecordSizes, fault \in AppendFaults : AppendCall(serialized, fault)

SpecLog == InitAudit /\ [][NextLog]_vars

\* SpecThreads: two threads that append through one writer, a statement at a
\* time, with records that fit two to a file and one to a file.
ThreadSizes == {Serialized(1, 1), Serialized(2, 2)}
NextThreads ==
  \E t \in Threads :
    \/ \E serialized \in ThreadSizes : ThreadCall(t, serialized)
    \/ Acquire(t)
    \/ Check(t)
    \/ RotateStep(t)
    \/ OpenStep(t)
    \/ WriteStep(t)
    \/ NewlineStep(t)
    \/ Release(t)

SpecThreads == InitAudit /\ [][NextThreads]_vars

\* SpecAudit: the calls of the bridge that write audit records, with the
\* files of the log followed through rotations and file-system failures.
AuditCommands == {<<"ls">>, <<"rm", " ", "-rf", " ", "/">>}
AuditRequests == {r \in Requests : r.command_id = 1 /\ r.command \in AuditCommands}
AuditEnvs ==
  {[fail |-> "none", before |-> <<>>, after |-> <<>>, log_ok |-> l,
    log_size |-> z, log_fault |-> f] :
      l \in BOOLEAN, z \in {Serialized(1, 1), Serialized(2, 2)}, f \in AppendFaults}
NextAudit ==
  \/ \E request \in AuditRequests, env \in AuditEnvs : Submit(request, FALSE, env)
  \/ \E env \in AuditEnvs : ExecutePendingCall(1, TRUE, env)
  \/ \E env \in AuditEnvs : RejectPendingCall(1, env)
  \/ Connect("dev", "ok")

SpecAudit == InitAudit /\ [][NextAudit]_vars

\* --------------------------------------------------------------- properties
\* the command_id the call of the step was made with
StepId == ret'.args.command_id

\* the step is a submit_command that takes the deferring branch: the verdict
\* on its command requires approval and approved = false
Defers ==
  SubmitStep /\ Evaluate(ret'.args.command).requires_approval /\ ~ret'.args.approved

\* the send-keys commands the call of the step issued
SendsOf(r) == SelectSeq(r.ops, LAMBDA x : x.tmux = "send-keys")
CapturesOf(r) == SelectSeq(r.ops, LAMBDA x : x.tmux = "capture-pane")

\* What submit_command does with a command on which the destructive patterns
\* are found in the text `text' of it.
DestructiveGate(text) ==
  (SubmitStep /\ Matches(destructive, text)) =>
     /\ (safe_mode /\ ~ret'.args.approved) =>
           /\ ret'.status \in {"pending_approval", "raised"}
           /\ ret'.status = "raised" => ret'.error = "OSError"
           /\ StepId \in DOMAIN pending'
           /\ pending'[StepId].command = ret'.args.command
     /\ ~safe_mode =>
           /\ ret'.status \in {"executed", "raised"}
           /\ pending' = pending

\* C1 (as amended): for every command whose trimmed text matches a destructive
\* pattern: when safe_mode is true, a submit_command with approved = false
\* that returns, returns pending_approval, and the command_id is in the
\* pending table afterwards (also when the audit append made the call raise);
\* when safe_mode is false, the submit that returns has status executed, and
\* the pending table is as before.
C1_DestructiveGate == [][DestructiveGate(Strip(ret'.args.command))]_vars

\* C1 as stated: the same for every command whose text, as submitted, matches a
\* destructive pattern.
C1_Original == [][DestructiveGate(ret'.args.command)]_vars

\* id 1 is parked after a deferral, and with safe_mode switched off the same
\* text has just been executed under id 2
C1_Witness ==
  /\ 1 \in DOMAIN pending /\ 1 \in deferred
  /\ ~safe_mode
  /\ ret.op = "submit_command" /\ ret.args.command_id = 2 /\ ~ret.args.approved
  /\ ret.args.command = pending[1].command
  /\ Matches(destructive, Strip(ret.args.command))
  /\ ret.status = "executed"
  /\ 2 \notin DOMAIN pending

C3_UnknownPending ==
  [][(ret'.op \in {"execute_pending", "approve_command"} /\ StepId \notin DOMAIN pending) =>
        /\ ret'.status = "raised"
        /\ ret'.error = IF ret'.op = "execute_pending" THEN "KeyError"
                        ELSE "SessionError: Unknown pending command"
        /\ pending' = pending
        /\ pane_snapshots' = pane_snapshots
        /\ ret'.ops = <<>>
        /\ ret'.logged = <<>>]_vars

\* execute_pending of an unknown id on a connected server while another id is
\* parked
C3_Witness ==
  /\ ret.op = "execute_pending" /\ ret.error = "KeyError"
  /\ ret.args.command_id \notin DOMAIN pending
  /\ pending # Empty
  /\ tmux_client = "live"

\* C4: once reject_pending(id) has succeeded, and as long as no submit_command
\* re-uses the id, the id is not in the pending table, and every
\* execute_pending(id) or reject_pending(id) raises the unknown-pending-command
\* error without issuing a tmux command or appending an audit record.
C4_RejectedStaysOut ==
  [][\A id \in Ids :
       life[id] = "rejected" =>
         /\ id \notin DOMAIN pending
         /\ (ResolveStep /\ StepId = id) =>
               /\ ret'.status = "raised"
               /\ ret'.error \in {"KeyError", "SessionError: Unknown pending command"}
               /\ ret'.ops = <<>> /\ ret'.logged = <<>>
               /\ pending' = pending]_vars

\* execute_pending has just failed for an id that was rejected before
C4_Witness ==
  /\ life[1] = "rejected"
  /\ ret.op = "execute_pending" /\ ret.args.command_id = 1
  /\ ret.error = "KeyError"

\* the statuses a command_id ends in, and the moves of a command_id
Terminal == {"blocked", "executed", "rejected"}
LifeSteps ==
  {<<"none", "submitted">>, <<"none", "blocked">>, <<"none", "executed">>,
   <<"none", "pending_approval">>,
   <<"pending_approval", "executed">>, <<"pending_approval", "rejected">>}

\* C5 (as amended): for every command_id that no second submit_command has
\* re-used, the statuses follow Submitted then Blocked or Executed, or
\* Submitted, PendingApproval, then Executed or Rejected; and once the id is
\* blocked, executed or rejected it stays so: it is not in the pending table,
\* and an execute_pending or reject_pending of it raises and sends nothing.
C5_Lifecycle ==
  [][\A id \in Ids :
       life'[id] # "reused" =>
         /\ life'[id] # life[id] => <<life[id], life'[id]>> \in LifeSteps
         /\ life[id] \in Terminal =>
              /\ life'[id] = life[id]
              /\ id \notin DOMAIN pending /\ id \notin DOMAIN pending'
              /\ (ResolveStep /\ StepId = id) =>
                    ret'.status = "raised" /\ ret'.ops = <<>>]_vars

\* C5 as stated: under any sequence of calls, once a command_id is blocked,
\* executed or rejected, no later call with the id sends its command to a
\* pane, executes it or makes it pending.
C5_Original ==
  [][\A id \in Ids :
       life[id] \in Terminal =>
         /\ id \notin DOMAIN pending'
         /\ StepId = id =>
              /\ SendsOf(ret') = <<>>
              /\ ret'.status \notin {"executed", "pending_approval"}]_vars

\* one id was executed, the other deferred and then rejected
C5_Witness ==
  /\ life[1] = "executed" /\ life[2] = "rejected"
  /\ ret.op = "reject_pending" /\ ret.args.command_id = 2 /\ ret.status # "raised"
  /\ DOMAIN pending = {}

TextOf(raw) == JoinLines(capture_pane(raw))

\* the post-send capture of the call of the step: its last capture-pane
PostCapture == TextOf(CapturesOf(ret')[Len(CapturesOf(ret'))].out)

\* the prior snapshot of the call of the step: the cache entry of the pane if
\* there is a non-empty one, else the capture taken before the send
PriorSnapshot ==
  LET key == ret'.args.key IN
  IF key \in DOMAIN pane_snapshots /\ pane_snapshots[key] # <<>>
  THEN pane_snapshots[key]
  ELSE TextOf(CapturesOf(ret')[1].out)

\* C7: the stdout of an executed command (and of its audit record) is, for the
\* prior snapshot P and the post-send capture A: A if P is empty; the text
\* that follows P in A if A starts with P; A if A does not start with P.
C7_Delta ==
  [][ret'.status = "executed" =>
       LET P == PriorSnapshot
           A == PostCapture
       IN /\ P = <<>> => ret'.stdout = A
          /\ (P # <<>> /\ StartsWith(A, P)) => P \o ret'.stdout = A
          /\ ~StartsWith(A, P) => ret'.stdout = A
          /\ ret'.logged[1].stdout = ret'.stdout]_vars

\* an execution against a cached snapshot "a" on a pane that then shows "aa"
\* returned the one new character
C7_Witness ==
  /\ ret.op = "submit_command" /\ ret.status = "executed"
  /\ Len(CapturesOf(ret)) = 1
  /\ pane_snapshots[ret.args.key] = <<"a", "a">>
  /\ ret.stdout = <<"a">>

\* C8 (as amended): when a command is executed against a pane for which the
\* snapshot cache holds no entry, a capture is taken before the send, and the
\* stdout of the result and of the executed audit record is the post-send
\* capture A only if that earlier capture B is empty or A does not start with
\* B; if A starts with B, it is the text that follows B in A.
C8_NoCacheEntry ==
  [][(ret'.status = "executed" /\ ret'.args.key \notin DOMAIN pane_snapshots) =>
       /\ Len(CapturesOf(ret')) = 2
       /\ LET B == TextOf(CapturesOf(ret')[1].out)
              A == PostCapture
              expected == IF B = <<>> \/ ~StartsWith(A, B) THEN A
                          ELSE SubSeq(A, Len(B) + 1, Len(A))
          IN /\ ret'.stdout = expected
             /\ ret'.logged[1].stdout = expected]_vars

\* C8 as stated: with no cache entry for the pane, the stdout of the result
\* and of the audit record is the whole post-send capture.
C8_Original ==
  [][(ret'.status = "executed" /\ ret'.args.key \notin DOMAIN pane_snapshots) =>
       /\ ret'.stdout = PostCapture
       /\ ret'.logged[1].stdout = PostCapture]_vars

\* an execution that captured the pane before the send saw text there, and
\* returned less than the post-send capture it cached
C8_Witness ==
  /\ ret.op = "submit_command" /\ ret.status = "executed"
  /\ Len(CapturesOf(ret)) = 2
  /\ TextOf(CapturesOf(ret)[1].out) # <<>>
  /\ ret.stdout # pane_snapshots[ret.args.key]

\* What evaluate answers for a command on which both a destructive and a warn
\* pattern are found in the text `text' of it.
DestructiveFirst(text) ==
  (ret.op = "evaluate" /\ Matches(destructive, text) /\ Matches(warn, text)) =>
     /\ ret.safety.reason = "destructive-pattern"
     /\ ret.safety.requires_approval = safe_mode

\* C9 (as amended): for every command whose trimmed text matches at least one
\* destructive and at least one warn pattern, evaluate returns
\* reason = destructive-pattern, for either value of safe_mode.
C9_DestructiveFirst == DestructiveFirst(Strip(ret.args.command))

\* C9 as stated: the same for every command whose text, as given, matches at
\* least one destructive and at least one warn pattern.
C9_Original == DestructiveFirst(ret.args.command)

\* with safe_mode off, evaluate classified a command that matches both lists
C9_Witness ==
  /\ ret.op = "evaluate"
  /\ Matches(destructive, Strip(ret.args.command))
  /\ Matches(warn, Strip(ret.args.command))
  /\ ~safe_mode
  /\ ret.safety = SafetyEvaluation(FALSE, FALSE, "destructive-pattern")

\* C10: under every safe_mode and every pattern lists, every verdict has
\* blocked = false; no call returns status blocked, no audit record has
\* status or safety_state blocked, and a submit_command that returns has
\* either executed or deferred its command.
C10_NeverBlocked ==
  /\ ~ret.safety.blocked
  /\ ret.status # "blocked"
  /\ \A i \in 1..Len(ret.logged) :
        ret.logged[i].status # "blocked" /\ ret.logged[i].safety_state # "blocked"
  /\ (ret.op = "submit_command" /\ ret.status # "raised") =>
        \/ ret.status = "executed" /\ SendsOf(ret) # <<>>
        \/ ret.status = "pending_approval" /\ ret.args.command_id \in DOMAIN pending

\* in safe mode, after the warn list was replaced, a submit of a command that
\* matches a destructive pattern was deferred, not blocked
C10_Witness ==
  /\ safe_mode /\ warn # DefaultWarn
  /\ ret.op = "submit_command"
  /\ ret.safety = SafetyEvaluation(TRUE, FALSE, "destructive-pattern")
  /\ ret.status = "pending_approval"
  /\ ret.logged[1].safety_state = "destructive-pattern"

\* the calls that make a decision on a request
DecisionOps == {"submit_command", "execute_pending", "approve_command",
                "reject_pending", "reject_command"}

\* the request the call of the step decides on: the one it was given, or the
\* one parked under the id it was given
StepRequestKey ==
  IF SubmitStep THEN ret'.args.key
  ELSE LET q == pending[StepId] IN <<q.session, q.window, q.pane>>
StepRequestCommand ==
  IF SubmitStep THEN ret'.args.command ELSE pending[StepId].command

\* C11: no call appends more than one audit record, and a submit_command,
\* execute_pending or reject_pending (or approve or reject tool) that returns
\* has appended exactly one, for the request it decided on, with the status it
\* returned, or denied for a rejection.
C11_OneRecordPerCall ==
  [][/\ Len(ret'.logged) <= 1
     /\ (ret'.op \in DecisionOps /\ ret'.status # "raised") =>
          /\ Len(ret'.logged) = 1
          /\ ret'.logged[1].status =
               IF ret'.op \in {"reject_pending", "reject_command"}
               THEN "denied" ELSE ret'.status
          /\ ret'.logged[1].status \in {"blocked", "pending_approval", "executed", "denied"}
          /\ ret'.logged[1].command = StepRequestCommand
          /\ <<ret'.logged[1].session, ret'.logged[1].window, ret'.logged[1].pane>>
               = StepRequestKey
     /\ ret'.op \notin DecisionOps => ret'.logged = <<>>]_vars

\* a rejection has just returned with its one denied record, for the command
\* that was parked
C11_Witness ==
  /\ ret.op = "reject_pending" /\ ret.status # "raised"
  /\ Len(ret.logged) = 1
  /\ ret.logged[1].status = "denied"
  /\ ret.logged[1].command = <<"rm", " ", "-rf", " ", "/">>

\* the lines of the log read from the oldest backup to the newest and then
\* log_path
RECURSIVE ReadFrom(_, _)
ReadFrom(files, slot) ==
  IF slot < 0 THEN <<>>
  ELSE (IF slot \in DOMAIN files THEN files[slot] ELSE <<>>) \o ReadFrom(files, slot - 1)
ReadOut(files) == ReadFrom(files, Backups)

\* C12: the backups read from the oldest to the newest, followed by the
\* active file, hold the records in the order in which the decisions were
\* made, and they are the last of them without a gap: the k lines read are the
\* records n-k+1 .. n of the n that reached the log, and a decision that
\* returns adds its record as the last line, also after rotations and after a
\* failed append.
C12_LogOrder ==
  [][LET lines == ReadOut(log'.files) IN
     /\ \A i \in 1..Len(lines) : lines[i].n = log'.n - Len(lines) + i
     /\ (ret'.op \in DecisionOps /\ ret'.status # "raised") =>
           /\ log'.n = log.n + 1
           /\ lines # <<>> /\ lines[Len(lines)].whole]_vars

\* four rotations have happened, the last of which dropped the oldest backup
C12_Witness ==
  /\ log.followed
  /\ DOMAIN log.files = 0..Backups
  /\ \A x \in 0..Backups : Len(log.files[x]) = 1
  /\ log.files[Backups][1].n > 1

\* C13: the cache entry of a pane is never removed, and it changes only in a
\* call whose last tmux command is a capture-pane of that pane that completed
\* (the call returned, or raised only in the audit append that follows the
\* capture); the entry is then the text of that capture.
C13_CacheAfterCapture ==
  [][\A key \in CacheKeys :
       LET had == key \in DOMAIN pane_snapshots
           has == key \in DOMAIN pane_snapshots'
       IN /\ had => has
          /\ (has /\ (~had \/ pane_snapshots'[key] # pane_snapshots[key])) =>
                /\ ret'.ops # <<>>
                /\ LET last == ret'.ops[Len(ret'.ops)] IN
                   /\ last.tmux = "capture-pane" /\ last.pane = key[3]
                   /\ ret'.status = "raised" => ret'.error = "OSError"
                   /\ pane_snapshots'[key] = TextOf(last.out)]_vars

\* an execution on pane 1 cached its post-send capture and then failed in the
\* audit append, while the entry of pane 0 holds another text
C13_Witness ==
  /\ ret.op = "submit_command" /\ ret.error = "OSError" /\ ret.ops # <<>>
  /\ ret.args.key = <<"work", "agent", "1">>
  /\ DOMAIN pane_snapshots = CacheKeys
  /\ pane_snapshots[<<"work", "agent", "1">>] = <<"a">>
  /\ pane_snapshots[<<"work", "agent", "0">>] = <<>>

\* the step is an append that returned; the line it wrote
AppendReturned == ret'.op = "append" /\ ret'.status # "raised"
NewLine == log'.files[0][Len(log'.files[0])]

\* What an append that returned has done, for the number `incoming' it takes
\* as the size of its record: if log_path existed and its size plus incoming
\* exceeds max_bytes, it rotated (the former log_path is now backup 1) and
\* log_path holds the new record only; if not, it added the record at the
\* end of log_path and left every other file alone.
RotatesOnCrossing(incoming) ==
  LET old == IF 0 \in DOMAIN log.files THEN log.files[0] ELSE <<>>
      crossing == 0 \in DOMAIN log.files /\ FileSize(old) + incoming > MaxBytes
  IN IF crossing
     THEN /\ log'.files[0] = <<NewLine>>
          /\ 1 \in DOMAIN log'.files /\ log'.files[1] = old
     ELSE log'.files = [x \in (DOMAIN log.files) \cup {0} |->
                          IF x = 0 THEN old \o <<NewLine>> ELSE log.files[x]]

\* C14: an append rotates iff log_path exists and its size plus the size of
\* the new record with its newline, in bytes, exceeds max_bytes; right after
\* a rotating append log_path holds the new record only.
C14_RotatesOnCrossing ==
  [][AppendReturned => RotatesOnCrossing(NewLine.size)]_vars

\* the step is an append that returned after it rotated: log_path existed and
\* st_size + len(serialized) + 1 exceeded max_bytes
Rotating ==
  /\ AppendReturned
  /\ 0 \in DOMAIN log.files
  /\ FileSize(log.files[0]) + NewLine.chars + 1 > MaxBytes

\* C15: a rotation moves every backup i below the backup count to i+1, drops
\* the backup whose index is the backup count, and makes the former log_path
\* backup 1; in every state the backups have indexes 1 .. Backups, so there
\* are at most Backups of them.
C15_ShiftAndBound ==
  [][/\ DOMAIN log'.files \subseteq 0..Backups
     /\ Rotating =>
          /\ 1 \in DOMAIN log'.files /\ log'.files[1] = log.files[0]
          /\ \A i \in 1..(Backups - 1) :
                IF i \in DOMAIN log.files
                THEN (i + 1) \in DOMAIN log'.files /\ log'.files[i + 1] = log.files[i]
                ELSE (i + 1) \notin DOMAIN log'.files
          /\ Backups \in DOMAIN log.files =>
                \A k \in DOMAIN log.files[Backups] :
                  \A x \in DOMAIN log'.files : \A j \in DOMAIN log'.files[x] :
                    log'.files[x][j].n # log.files[Backups][k].n]_vars

\* the append just made rotated with all backups present: the record that was
\* written first is in no file any more
C15_Witness ==
  /\ ret.op = "append" /\ ret.status # "raised"
  /\ DOMAIN log.files = 0..Backups
  /\ Len(log.files[0]) = 1
  /\ \A x \in DOMAIN log.files : \A j \in DOMAIN log.files[x] : log.files[x][j].n # 1

\* C17: a call of the bridge whose append met a failure of the file system
\* (in the size check, in the rotation, in opening or in writing log_path)
\* raises that error: it returns no result, and its record is not among the
\* whole lines of the log.
C17_FailureSurfaced ==
  [][log'.fault # "none" =>
       /\ ret'.op \in DecisionOps
       /\ ret'.status = "raised" /\ ret'.error = "OSError"
       /\ ret'.logged = <<>>
       /\ \A x \in DOMAIN log'.files : \A j \in DOMAIN log'.files[x] :
             log'.files[x][j].whole => log'.files[x][j].n <= log.n]_vars

\* a rotation failed under reject_pending after it had moved a backup
C17_Witness ==
  /\ ret.op = "reject_pending" /\ ret.status = "raised" /\ ret.error = "OSError"
  /\ log.fault = "rotate"
  /\ 0 \in DOMAIN log.files /\ 1 \notin DOMAIN log.files /\ 2 \in DOMAIN log.files

\* C16: at most one thread is between taking and releasing the lock; the
\* append of a thread that releases the lock has changed the files exactly as
\* one uninterrupted append on the directory it found would have (one
\* rotation if the threshold is crossed, none if not, its record at the end
\* of log_path); and whenever no thread holds the lock every line of the log
\* is whole and the lines read from the oldest backup on are the last records
\* written, none missing.
C16_CriticalSection ==
  [][/\ Cardinality({t \in Threads : log'.threads[t].pc \in Section}) <= 1
     /\ \A t \in Threads :
          (log.threads[t].pc = "release" /\ log'.threads[t].pc = "idle") =>
             LET me == log.threads[t] IN
             log'.files = WriterAppend(me.start, Line(me.n, me.serialized), NoFault).files
     /\ (\A t \in Threads : log'.threads[t].pc \notin Section) =>
          LET lines == ReadOut(log'.files) IN
          \A i \in 1..Len(lines) :
            lines[i].whole /\ lines[i].n = log'.n - Len(lines) + i]_vars

\* thread 1 is in the middle of a rotation, with a backup moved and log_path
\* not yet renamed, while thread 2 waits for the lock with its record
C16_Witness ==
  /\ log.threads[1].pc = "rotate" /\ Len(log.threads[1].calls) = 1
  /\ log.threads[2].pc = "lock"
  /\ 2 \in DOMAIN log.files /\ 1 \notin DOMAIN log.files

\* C18: in every state one SessionManager reaches by connects, disconnects
\* and failed connects, at most one transport is open, during the calls as
\* well as between them, and it is the one of the client the manager holds;
\* a connect that replaces a transport closes it before it opens the new one.
C18_OneTransport ==
  /\ handles.transports <= 1
  /\ handles.peak <= 1
  /\ handles.transports = 1 <=> tmux_client = "live"
  /\ \A i, j \in DOMAIN handles.calls :
        handles.calls[i] = "ssh.close" /\ handles.calls[j] \in {"ssh.open", "ssh.refused"}
          => i < j
C18_Witness ==
  /\ ret.op = "connect"
  /\ ret.status = None
  /\ handles.calls = <<"ssh.close", "proxy.close", "proxy.open", "ssh.open">>
  /\ handles.transports = 1

\* C19: close() leaves a client with no handle whatever handles it had (both,
\* the transport alone, the proxy alone as after a connect that failed behind
\* a proxy command, or none), and a second close() changes nothing;
\* disconnect() never raises, leaves the manager without client and the
\* process without open transport or proxy, and does nothing when there is
\* no client.  No call leaves a proxy open without the transport it carries.
ClientStates == [ssh : BOOLEAN, proxy : BOOLEAN]
C19_CloseSafe ==
  [][/\ \A c \in ClientStates :
          /\ ClientClose(c) = [ssh |-> FALSE, proxy |-> FALSE]
          /\ ClientClose(ClientClose(c)) = ClientClose(c)
     /\ handles'.proxies = (IF handles'.proxy THEN 1 ELSE 0)
     /\ handles'.proxy => tmux_client' = "live"
     /\ ret'.op = "disconnect" =>
          /\ ret'.status = None
          /\ tmux_client' = None
          /\ handles'.transports = 0 /\ handles'.proxies = 0
          /\ tmux_client = None => handles'.calls = <<>> /\ current_profile' = current_profile
    ]_vars
C19_Witness ==
  /\ ret.op = "connect"
  /\ ret.error = "SessionError: SSH connection failed"
  /\ handles.calls = <<"proxy.open", "ssh.refused", "proxy.close">>
  /\ handles.proxies = 0

\* the step is a call that needs the client: ensure_session, read_context,
\* execute_pending of a pending command_id, a submit_command that executes
NeedsPane ==
  \/ ret'.op \in {"ensure_session", "read_context"}
  \/ ret'.op = "execute_pending" /\ StepId \in DOMAIN pending
  \/ SubmitStep /\ ~Defers /\ ~Evaluate(ret'.args.command).blocked

\* the SessionErrors of a manager without client and of a client without
\* transport
NotConnectedErrors ==
  {"SessionError: Server not connected", "SessionError: SSH session not established"}
RefusedNotConnected ==
  ret'.status = "raised" /\ ret'.error \in NotConnectedErrors /\ ret'.ops = <<>>

\* C20: a call that needs the client, made when no connect has returned
\* since the manager was constructed or last disconnected, or made without
\* a live transport, raises the SessionError that says so and issues no tmux
\* command.
C20_NotConnected ==
  [][NeedsPane =>
       /\ ~handles.connected => RefusedNotConnected
       /\ tmux_client # "live" => RefusedNotConnected]_vars

\* C21: a connect with a name the profile store does not know raises the
\* profile-not-found error and does nothing else: the manager keeps the
\* client and the profile it had, no transport or proxy is opened and none
\* is closed.
C21_UnknownProfile ==
  [][ret'.op = "connect" /\ ret'.args.profile_name \notin Profiles \cup ProxyProfiles =>
       /\ ret'.status = "raised"
       /\ ret'.error = "SessionError: Profile not found"
       /\ tmux_client' = tmux_client
       /\ current_profile' = current_profile
       /\ handles'.calls = <<>>
       /\ handles'.transports = handles.transports
       /\ handles'.proxies = handles.proxies]_vars
C21_Witness ==
  /\ ret.op = "connect"
  /\ ret.args.profile_name = "nope"
  /\ ret.error = "SessionError: Profile not found"
  /\ tmux_client = "live"
  /\ current_profile = "jump"
  /\ handles.transports = 1 /\ handles.proxies = 1

\* the names of the tmux commands a call issued, in order
OpNames(r) == [i \in 1..Len(r.ops) |-> r.ops[i].tmux]
IsPrefix(a, b) == Len(a) <= Len(b) /\ a = SubSeq(b, 1, Len(a))
\* the commands of a call on which no command fails: _execute without and
\* with a cached snapshot, read_context, ensure_session
IssueOrders ==
  {<<"list-panes", "capture-pane", "send-keys", "capture-pane">>,
   <<"list-panes", "send-keys", "capture-pane">>,
   <<"list-panes", "capture-pane">>,
   <<"has-session">>}

\* C22: a call issues each of its tmux commands once, in the order of a call
\* on which nothing fails, and stops at the first that fails: what it issued
\* is a prefix of that order, so no command is issued again.  No call other
\* than connect opens a transport or changes the client the manager holds,
\* except that disconnect drops it: on a closed or failing transport the
\* calls raise and the handles stay as they were.
C22_NoRetry ==
  [][/\ \E order \in IssueOrders : IsPrefix(OpNames(ret'), order)
     /\ ret'.op # "connect" =>
          /\ handles'.transports <= handles.transports
          /\ handles'.proxies <= handles.proxies
          /\ tmux_client' \in {tmux_client, None}
          /\ ret'.op # "disconnect" => handles' = handles /\ tmux_client' = tmux_client
     /\ tmux_client # "live" /\ ret'.op # "connect" => ret'.ops = <<>>]_vars
C22_Witness ==
  /\ ret.op = "submit_command"
  /\ ret.status = "raised"
  /\ ret.error = "SessionError: remote"
  /\ OpNames(ret) = <<"list-panes", "capture-pane", "send-keys">>
  /\ tmux_client = "live"
  /\ handles.transports = 1

\* C23: every connect and every tmux command that was started ends, by
\* returning or by raising, however long the peer stays silent; and what it
\* raises is a SessionError.
C23_TimesOut ==
  /\ (io.pc # "idle") ~> (io.pc = "idle")
  /\ [](ret.op \in {"connect", "run_tmux"} /\ ret.status = "raised" =>
          ret.error \in {"SessionError: Unable to reach",
                         "SessionError: SSH connection lost"})

\* the session and the window an ensure_session of the step was called with
EnsureStep == ret'.op = "ensure_session" /\ Len(ret'.args.key) = 2
EnsureSessionName == ret'.args.key[1]
EnsureWindowName == ret'.args.key[2]
Present(srv, session_name, window_name) ==
  /\ session_name \in DOMAIN srv
  /\ window_name # None => window_name \in srv[session_name]

\* C24: ensure_session asks before it creates.  It issues new-session exactly
\* when has-session reported the session absent, and new-window only for a
\* window that was not listed; when it returns, the session and the window
\* it was given exist; called when they exist already it creates nothing,
\* leaves the server as it is, and fails only if list-windows itself fails.
C24_EnsureIdempotent ==
  [][EnsureStep =>
       /\ "new-session" \in {OpNames(ret')[i] : i \in DOMAIN ret'.ops}
            <=> EnsureSessionName \notin DOMAIN server
       /\ "new-window" \in {OpNames(ret')[i] : i \in DOMAIN ret'.ops}
            => EnsureWindowName # None
               /\ ~Present(server, EnsureSessionName, EnsureWindowName)
       /\ ret'.status = None => Present(server', EnsureSessionName, EnsureWindowName)
       /\ Present(server, EnsureSessionName, EnsureWindowName) =>
            /\ server' = server
            /\ \A i \in DOMAIN ret'.ops : ret'.ops[i].tmux \in {"has-session", "list-windows"}
            /\ ret'.status = "raised" =>
                 OpNames(ret') = <<"has-session", "list-windows">>]_vars
C24_Witness ==
  /\ ret.op = "ensure_session"
  /\ ret.args.key = <<"work", "agent">>
  /\ ret.status = None
  /\ OpNames(ret) = <<"has-session", "list-windows">>
  /\ server = [x \in {"work"} |-> {"agent"}]

\* the reasons a verdict of the policy carries
PolicyReasons == {"destructive-pattern", "warn-pattern"}

\* C25: what the caller is handed when a command is blocked, deferred or
\* rejected names the policy reason: the result of a submit_command that
\* ends blocked or pending_approval, and the outcome of a reject_pending or
\* reject_command that returns.
C25_ReasonDelivered ==
  /\ ret.op = "submit_command" /\ ret.status \in {"blocked", "pending_approval"}
       => ret.safety.reason \in PolicyReasons
  /\ ret.op \in {"reject_pending", "reject_command"} /\ ret.status # "raised"
       => ret.safety.reason \in PolicyReasons

\* C26: the verdict in the result of an execute_pending, and the reason in
\* its executed audit record, are those of the configuration in force when
\* execute_pending runs: requires_approval is set only if safe_mode is on
\* and a pattern of the lists now in force is found in the command, and the
\* reason names the list it is now found in.
C26_Reevaluated ==
  [][ret'.op = "execute_pending" /\ StepId \in DOMAIN pending /\ ret'.status = "executed" =>
       LET command == Strip(pending[StepId].command)
           reason == IF Matches(destructive, command) THEN "destructive-pattern"
                     ELSE IF Matches(warn, command) THEN "warn-pattern"
                     ELSE None
       IN /\ ret'.safety.reason = reason
          /\ ret'.safety.requires_approval = (safe_mode /\ reason # None)
          /\ ~ret'.safety.blocked
          /\ Len(ret'.logged) = 1
          /\ ret'.logged[1].status = "executed"
          /\ ret'.logged[1].safety_state = (IF reason = None THEN "allowed" ELSE reason)]_vars
C26_Witness ==
  /\ ret.op = "execute_pending"
  /\ ret.status = "executed"
  /\ ~safe_mode
  /\ ret.safety = SafetyEvaluation(FALSE, FALSE, "destructive-pattern")
  /\ ret.logged[1].safety_state = "destructive-pattern"

\* C30: an execute_pending of a pending command_id never defers, blocks or
\* refuses: it ends executed, with the command sent once, or raises because
\* a remote step or the audit append failed, and the id leaves the table;
\* this is so for approved_by_user false under a verdict that still requires
\* approval.  The call with the other value of approved_by_user, in the same
\* state and against the same pane, issues the same commands and ends with
\* the same status, output, verdict and tables; approved_by_user is copied
\* to the result and to the executed record.
C30_SendsRegardless ==
  [][ret'.op = "execute_pending" /\ StepId \in DOMAIN pending =>
       /\ ret'.status \in {"executed", "raised"}
       /\ ret'.status = "raised" => ret'.error \in {"SessionError: remote",
              "SessionError: Server not connected",
              "SessionError: SSH session not established", "OSError"}
       /\ StepId \notin DOMAIN pending'
       /\ ret'.status = "executed" =>
            /\ Len(SendsOf(ret')) = 1
            /\ SendsOf(ret')[1].keys = pending[StepId].command
            /\ ret'.approved_by_user = ret'.args.approved
            /\ ret'.logged[1].approved_by_user = ret'.args.approved
       /\ \E env \in Envs :
            LET other == ExecutePending(StepId, ~ret'.args.approved, env) IN
            /\ other.ops = ret'.ops
            /\ other.status = ret'.status
            /\ other.stdout = ret'.stdout
            /\ other.safety = ret'.safety
            /\ other.pending = pending'
            /\ other.snapshots = pane_snapshots']_vars
C30_Witness ==
  /\ ret.op = "execute_pending"
  /\ ret.status = "executed"
  /\ ~ret.args.approved
  /\ ret.safety.requires_approval
  /\ ~ret.approved_by_user
  /\ Len(SendsOf(ret)) = 1

\* the call before the step was a read_context that returned, and the step
\* is an execution on the pane it read
ExecutesAfterRead ==
  /\ ret.op = "read_context" /\ ret.status # "raised"
  /\ ret'.status = "executed"
  /\ StepRequestKey = ret.args.key

\* C27: a read_context that returns has captured the pane once, has stored
\* the text of that capture as the cache entry of the pane and has returned
\* that text; the execution that follows it on the same pane captures the
\* pane only after the send and returns the delta of that capture against
\* the stored text.
C27_ReadThenExecute ==
  [][/\ ret'.op = "read_context" /\ ret'.status # "raised" =>
          /\ Len(CapturesOf(ret')) = 1
          /\ pane_snapshots'[ret'.args.key] = PostCapture
          /\ ret'.stdout = PostCapture
     /\ ExecutesAfterRead =>
          /\ pane_snapshots[StepRequestKey] = ret.stdout
          /\ Len(CapturesOf(ret')) = 1
          /\ OpNames(ret') = <<"list-panes", "send-keys", "capture-pane">>
          /\ ret'.stdout = CalculateDelta(ret.stdout, PostCapture)]_vars

\* a step in which the evaluate in progress reads a pattern list
ReadsDestructive == running.evaluate.seen_d = <<>> /\ running'.evaluate.seen_d # <<>>
ReadsWarn == running.evaluate.seen_w = <<>> /\ running'.evaluate.seen_w # <<>>
\* a step in which an evaluate returns that had no update_config beside it
ReturnsAlone ==
  /\ running.evaluate.pc # "idle" /\ running'.evaluate.pc = "idle"
  /\ ~running.evaluate.overlapped

\* C28: the destructive list and the warn list an evaluate reads are each
\* the complete list of before the update_config beside it or the complete
\* list that update_config was given, and the list in force when there is
\* none; an evaluate that ran with no update_config beside it read the lists
\* and the safe_mode the last update_config set, and returns their verdict.
C28_WholeLists ==
  [][/\ ReadsDestructive =>
          running'.evaluate.seen_d[1] \in
            IF running.update.pc = "idle" THEN {running.update.new.d}
            ELSE {running.update.old.d, running.update.new.d}
     /\ ReadsWarn =>
          running'.evaluate.seen_w[1] \in
            IF running.update.pc = "idle" THEN {running.update.new.w}
            ELSE {running.update.old.w, running.update.new.w}
     /\ ReturnsAlone =>
          /\ <<safe_mode, destructive, warn>> =
               <<running.update.new.sm, running.update.new.d, running.update.new.w>>
          /\ running'.evaluate.seen_d = <<running.update.new.d>>
          /\ running'.evaluate.seen_w \in {<<>>, <<running.update.new.w>>}
          /\ ret'.op = "evaluate"
          /\ ret'.safety = Evaluate(running.evaluate.command)]_vars
\* an evaluate has returned that read the destructive list of before the
\* update_config beside it and the warn list that update_config was given
C28_Witness ==
  /\ ret.op = "evaluate" /\ running.evaluate.pc = "idle"
  /\ running.evaluate.overlapped
  /\ running.update.old.d # running.update.new.d
  /\ running.update.old.w # running.update.new.w
  /\ running.evaluate.seen_d = <<running.update.old.d>>
  /\ running.evaluate.seen_w = <<running.update.new.w>>

\* _RemotePane.send_keys: the arguments tmux is run with
send_keys(pane_id, keys, enter) ==
  <<"send-keys", "-t", pane_id, keys>> \o (IF enter THEN <<"Enter">> ELSE <<>>)
\* the pane has a cache entry that holds text
HasPrior ==
  StepRequestKey \in DOMAIN pane_snapshots /\ pane_snapshots[StepRequestKey] # <<>>

\* C29: a call that ends executed has issued one send-keys, to the pane of
\* the request, with the command of the request and then Enter; the send
\* comes after the capture of the prior snapshot when the cache holds no
\* text for the pane, with nothing between get_pane and the send when it
\* does, and before the one capture that follows it.  A submit_command that
\* ends pending_approval, a rejection, and a call with an id that is not
\* pending issue no tmux command at all.
C29_SentOnce ==
  [][/\ ret'.status = "executed" =>
          /\ Len(SendsOf(ret')) = 1
          /\ send_keys(SendsOf(ret')[1].pane, SendsOf(ret')[1].keys, TRUE) =
               <<"send-keys", "-t", StepRequestKey[3], StepRequestCommand, "Enter">>
          /\ OpNames(ret') =
               IF HasPrior THEN <<"list-panes", "send-keys", "capture-pane">>
               ELSE <<"list-panes", "capture-pane", "send-keys", "capture-pane">>
     /\ (\/ ret'.status = "pending_approval"
         \/ ret'.op \in {"reject_pending", "reject_command"}
         \/ ResolveStep /\ StepId \notin DOMAIN pending) =>
          ret'.ops = <<>>]_vars
\* an approved command has been sent to a pane whose cache entry held text
C29_Witness ==
  /\ ret.op = "execute_pending" /\ ret.status = "executed"
  /\ OpNames(ret) = <<"list-panes", "send-keys", "capture-pane">>
  /\ ret.safety.requires_approval
  /\ pending # Empty

\* the safe_mode the submit of a tool step runs under
StepSafeMode ==
  IF ret'.args.safe_mode # <<>> THEN ret'.args.safe_mode[1] ELSE safe_mode

\* C31: a submit_command tool call leaves safe_mode (and the pattern lists)
\* as it found them, whether it returned or raised, while the verdict it
\* returns is the one under its override; the verdict of a submit_command
\* that returns is the one under the safe_mode of the evaluator, whatever
\* the tool calls before it overrode.
C31_OverrideScoped ==
  [][/\ ToolSubmitStep =>
          /\ safe_mode' = safe_mode /\ destructive' = destructive /\ warn' = warn
          /\ ret'.status # "raised" =>
                ret'.safety = EvaluateUnder(StepSafeMode, ret'.args.command)
     /\ SubmitStep /\ ret'.status # "raised" =>
          ret'.safety = Evaluate(ret'.args.command)]_vars
\* a tool call that overrode safe_mode has raised on a server that is not
\* connected
C31_Witness ==
  /\ ret.op = "submit_command_tool"
  /\ ret.args.safe_mode # <<>> /\ ret.args.safe_mode[1] # safe_mode
  /\ ret.status = "raised" /\ ret.error = "SessionError: Server not connected"

\* the step is a submit_command tool call with force = true
ForcedStep == ToolSubmitStep /\ ret'.args.approved

\* C32 (as amended): a submit_command tool call with force = true adds
\* nothing to the pending table, which is as before the call, for any command
\* and any configured or requested safe_mode: it ends executed, with the
\* command sent once and approved_by_user true in the result and in the
\* executed record, or raises a session error.
C32_ForceNeverParks ==
  [][ForcedStep =>
       /\ pending' = pending
       /\ ret'.status \in {"executed", "raised"}
       /\ ret'.status = "raised" =>
            ret'.error \in {"SessionError: remote", "SessionError: Server not connected",
                            "SessionError: SSH session not established"}
       /\ ret'.status = "executed" =>
            /\ Len(SendsOf(ret')) = 1
            /\ SendsOf(ret')[1].keys = ret'.args.command
            /\ ret'.approved_by_user
            /\ Len(ret'.logged) = 1
            /\ ret'.logged[1].status = "executed"
            /\ ret'.logged[1].approved_by_user]_vars

\* C32 as stated: after a submit_command tool call with force = true the
\* command of the call is not in the pending table under its command_id.
C32_Original ==
  [][ForcedStep =>
       ~(StepId \in DOMAIN pending' /\ pending'[StepId].command = ret'.args.command)]_vars

\* a forced call has executed a destructive command under safe_mode true
\* while an earlier request is parked under the same command_id
C32_Witness ==
  /\ ret.op = "submit_command_tool" /\ ret.args.approved
  /\ ret.status = "executed" /\ ret.approved_by_user
  /\ safe_mode
  /\ Matches(destructive, Strip(ret.args.command))
  /\ ret.args.command_id \in DOMAIN pending

\* the errors of a remote step: the server is not connected, its transport is
\* closed, or tmux or the transport failed
RemoteErrors ==
  {"SessionError: remote", "SessionError: Server not connected",
   "SessionError: SSH session not established"}
\* the call before the step was an execute_pending (or the approve tool) that
\* raised at a remote step, and the step is a call for its command_id
ResolvesAfterFailure ==
  /\ ret.op \in {"execute_pending", "approve_command"}
  /\ ret.status = "raised" /\ ret.error \in RemoteErrors
  /\ ResolveStep /\ StepId = ret.args.command_id

\* C33: an execute_pending (or approve tool call) of a pending id that raises
\* at a remote step has taken the id, and nothing else, out of the pending
\* table and has written no audit record; the execute_pending or
\* reject_pending of the id that follows it raises the unknown-pending-command
\* error and issues nothing.
C33_FailedStaysOut ==
  [][/\ (ret'.op \in {"execute_pending", "approve_command"}
         /\ StepId \in DOMAIN pending
         /\ ret'.status = "raised" /\ ret'.error \in RemoteErrors) =>
          /\ pending' = Pop(pending, StepId)
          /\ ret'.logged = <<>>
     /\ ResolvesAfterFailure =>
          /\ StepId \notin DOMAIN pending
          /\ ret'.status = "raised"
          /\ ret'.error \in {"KeyError", "SessionError: Unknown pending command"}
          /\ ret'.ops = <<>> /\ ret'.logged = <<>>
          /\ pending' = pending]_vars
\* an execute_pending has raised at the send after the pre-send capture, on a
\* connected server, and its id is out of the table while another is parked
C33_Witness ==
  /\ ret.op = "execute_pending" /\ ret.status = "raised"
  /\ ret.error = "SessionError: remote"
  /\ OpNames(ret) = <<"list-panes", "capture-pane", "send-keys">>
  /\ ret.args.command_id \notin DOMAIN pending
  /\ ret.args.command_id \notin deferred
  /\ pending # Empty

\* C34: a submit_command that does not defer and raises at a remote step
\* (get_pane, the pre-send capture, the send, the post-send capture) leaves
\* the pending table and the snapshot cache as they were and appends no audit
\* record.
C34_FailureLeavesNoTrace ==
  [][(SubmitStep /\ ~Defers /\ ret'.status = "raised" /\ ret'.error \in RemoteErrors) =>
       /\ pending' = pending
       /\ pane_snapshots' = pane_snapshots
       /\ ret'.logged = <<>>]_vars
\* a submit_command has raised at the post-send capture, after the send, on
\* a pane with a cache entry, while a request is parked
C34_Witness ==
  /\ ret.op = "submit_command" /\ ret.status = "raised"
  /\ ret.error = "SessionError: remote"
  /\ OpNames(ret) = <<"list-panes", "send-keys", "capture-pane">>
  /\ ret.args.key \in DOMAIN pane_snapshots
  /\ pending # Empty

\* the step defers a request under a command_id that is in the pending table
Overwrites == Defers /\ StepId \in DOMAIN pending

\* C35: a submit_command that defers a request under a command_id that is in
\* the pending table puts the new request in the place of the earlier one:
\* the table has the same ids, the other entries are as before, and the only
\* record the call writes is the pending_approval record of the new request;
\* an execute_pending of an id sends the command parked under it, which
\* after a deferral is the command of that deferral.
C35_Overwrites ==
  [][/\ Overwrites =>
          /\ DOMAIN pending' = DOMAIN pending
          /\ pending'[StepId].command = ret'.args.command
          /\ \A id \in DOMAIN pending \ {StepId} : pending'[id] = pending[id]
          /\ \A i \in 1..Len(ret'.logged) :
               /\ ret'.logged[i].status = "pending_approval"
               /\ ret'.logged[i].command = ret'.args.command
     /\ (ret'.op = "execute_pending" /\ StepId \in DOMAIN pending) =>
          /\ \A i \in 1..Len(SendsOf(ret')) :
               SendsOf(ret')[i].keys = pending[StepId].command
          /\ (ret.op = "submit_command" /\ ret.status = "pending_approval"
              /\ ret.args.command_id = StepId) =>
                pending[StepId].command = ret.args.command]_vars
\* a second deferral under id 1 has put its command in the table while id 2
\* is parked with the other command
C35_Witness ==
  /\ life[1] = "reused"
  /\ ret.op = "submit_command" /\ ret.status = "pending_approval"
  /\ ret.args.command_id = 1
  /\ DOMAIN pending = {1, 2}
  /\ pending[1].command = ret.args.command
  /\ pending[2].command # ret.args.command

\* the step is a connect, called on a manager that has a client, whose new
\* transport could not be established
FailedReconnect ==
  /\ ret'.op = "connect" /\ ret'.error = "SessionError: SSH connection failed"
  /\ tmux_client # None

\* C36: a connect on a manager that has a client, whose new transport fails,
\* leaves the manager with the closed client and the profile it had; while
\* the manager has the closed client every ensure_session, execution and
\* read_context raises the session error of a transport that is not
\* established, without issuing a tmux command, and the closed client is
\* replaced by a live one only in a connect that returns.
C36_ClosedUntilConnected ==
  [][/\ FailedReconnect =>
          /\ tmux_client' = "closed"
          /\ current_profile' = current_profile /\ current_profile # None
     /\ (tmux_client = "closed" /\ NeedsPane) =>
          /\ RefusedNotConnected
          /\ ret'.error = "SessionError: SSH session not established"
     /\ (tmux_client = "closed" /\ tmux_client' = "live") =>
          ret'.op = "connect" /\ ret'.status # "raised"]_vars

\* C37: after every append that returned, log_path holds at most max_bytes
\* bytes or exactly one record.
C37_BoundedOrSingle ==
  [][AppendReturned =>
       \/ FileSize(log'.files[0]) <= MaxBytes
       \/ Len(log'.files[0]) = 1]_vars

====
